---- MODULE Spec2Model ----
(***************************************************************************)
(* Capture-to-delivery pipeline of the EyeSeeYou backend (Go):             *)
(*   utils.RetryWithBackoff, S3Uploader.Upload / verifyUpload /            *)
(*   moveToFailedDir, SNSPublisher.Publish, FileWatcher.Watch /            *)
(*   processVideo, main's cancellation and exit,                           *)
(*   CloudFrontSigner.SignURL and config.LoadConfig.                       *)
(* Durations are in milliseconds, sizes in bytes.                          *)
(***************************************************************************)
EXTENDS Integers, FiniteSets, Sequences, Bags, TLC

(* ------------------------------ bounds -------------------------------- *)
\* number of per-clip goroutines (processVideo) a run may start
MaxTasks == 2
\* number of distinct clip paths in the watched directory
MaxFiles == 2
\* largest RetryConfig.MaxRetries explored by RetrySpec
MaxRetriesBound == 4
\* number of fsnotify events received in a run of EventSpec
MaxEvents == 2
\* dashboard: polling loops alive at once, responses to receiveMessage in a
\* run, and calls of getMostRecentVideo in flight at once
MaxLoops == 2
MaxPolls == 3
MaxFetches == 1
\* dashboard: calls retryWithBackoff makes before it gives up
MAX_RETRIES == 3

Tasks == 1..MaxTasks
Files == 1..MaxFiles

(* -------------------------- program constants ------------------------- *)
\* s3_uploader.go: s3UploadTimeout = 60 * time.Second
s3UploadTimeout == 60000
\* s3_uploader.go: maxFailedUploadDirSize = 100 * 1024 * 1024
maxFailedUploadDirSize == 104857600
\* sns_publisher.go: snsPublishTimeout = 15 * time.Second
snsPublishTimeout == 15000

\* utils.DefaultRetryConfig(operationName)
DefaultRetryConfig(operationName) ==
    [MaxRetries |-> 4, InitialDelay |-> 1000, MaxDelay |-> 8000,
     OperationName |-> operationName]
\* the RetryConfig literal of S3Uploader.verifyUpload for the object `key`
VerifyRetryConfig(key) ==
    [MaxRetries |-> 2, InitialDelay |-> 500, MaxDelay |-> 2000,
     OperationName |-> "S3 verify " \o key]

\* sizes a clip written by the detector may have: a 2 MB clip (the spec's
\* end-to-end example) and a clip as large as the quarantine cap
FileSizes == {2097152, maxFailedUploadDirSize}

\* a directory maps each path to the size of the file there, NoFile if none
NoFile == -1

VARIABLES
    cancelled,      \* main's ctx has been cancelled (cancel() was called)
    watchPc,        \* where the goroutine running FileWatcher.Watch is
    watcherErrors,  \* main's watcherErrors channel (buffered, capacity 1)
    started,        \* number of processVideo goroutines started so far
    watchedDir,     \* cfg.VideoDir: path -> size
    failedDir,      \* failedUploadDir (/tmp/videos-failed-upload): path -> size
    remote,         \* keys of the objects stored in the bucket
    topic,          \* the notifications accepted by the SNS topic (a bag)
    phase,          \* per task: where processVideo is
    file,           \* per task: filePath argument of processVideo
    rt,             \* per task: locals of the RetryWithBackoff call in progress
    tctx,           \* per task: the WithTimeout context in use (uploadCtx / publishCtx)
    res,            \* per task: what each step returned
    rx,             \* RetrySpec: one RetryWithBackoff call on an arbitrary policy
    mainPc,         \* where main is: at its select, running its deferred
                    \* calls, or returned (process exited)
    events,         \* fw.watcher.Events: paths of the Create events not yet received
    sg,             \* SignSpec: two SignURL calls on one URL
    cf,             \* ConfigSpec: the environment and what LoadConfig made of it
    wx,             \* EventSpec: the events Watch received and the tasks it started
    px              \* PollSpec: the dashboard's useSQSPolling hook

vars == <<cancelled, watchPc, watcherErrors, started, watchedDir, failedDir, remote, topic,
          phase, file, rt, tctx, res, rx, mainPc, events, sg, cf, wx, px>>

\* Watch has subscribed to the directory and is in its event loop
watching == watchPc = "loop"

(* ------------------------- utils.RetryWithBackoff ---------------------- *)

\* locals of RetryWithBackoff at the top of the loop, attempt = 0. delay is
\* the local of that name, remaining what is left of it on the timer, slept
\* the delays the backoff select has waited out so far; label and cited are
\* the operation name and the attempt count in the text of the error returned
NewRetry ==
    [st |-> "attempt", attempt |-> 0, calls |-> 0, delay |-> 0, remaining |-> 0,
     slept |-> <<>>, lastErr |-> 0, cited |-> 0, label |-> "", res |-> "none"]

\* mutant: the delay is not held at the ceiling
BackoffDelayUncapped(cfg, attempt) == cfg.InitialDelay * (2 ^ attempt)

\* delay := InitialDelay * 2^attempt; if delay > MaxDelay { delay = MaxDelay }
BackoffDelay(cfg, attempt) ==
    LET d == cfg.InitialDelay * (2 ^ attempt)
    IN  IF d > cfg.MaxDelay THEN cfg.MaxDelay ELSE d

\* mutant: the loop stops one iteration early
IsLastAttemptOneEarly(cfg, attempt) == attempt + 1 >= cfg.MaxRetries

\* mutant: the loop goes one iteration further
IsLastAttemptOneLate(cfg, attempt) == attempt = cfg.MaxRetries + 1

\* the loop bound: attempt == config.MaxRetries is the last attempt
IsLastAttempt(cfg, attempt) == attempt = cfg.MaxRetries

\* mutant: the exhaustion error cites the number of retries
CitedRetries(cfg) == cfg.MaxRetries

\* the attempt count the exhaustion error cites: config.MaxRetries+1
CitedAttempts(cfg) == cfg.MaxRetries + 1

\* mutant: the top of the iteration does not look at ctx.Done()
CheckCancelledNever(done) == FALSE

\* the select on ctx.Done() at the top of an iteration
CheckCancelled(done) == done

\* One loop iteration up to the backoff select: the ctx.Done() check, fn(),
\* and either a return (cancelled, success, exhausted) or entering the sleep.
\* `done` is ctx.Done() being closed, `ok` is fn() returning nil; the error
\* of the n-th call of fn is identified by n.
RetryAttempt(r, cfg, done, ok) ==
    IF CheckCancelled(done)
    THEN [r EXCEPT !.st = "ret", !.res = "cancelled",
                   !.label = cfg.OperationName]
    ELSE IF ok
    THEN [r EXCEPT !.st = "ret", !.res = "ok", !.calls = @ + 1]
    ELSE IF IsLastAttempt(cfg, r.attempt)
    THEN [r EXCEPT !.st = "ret", !.res = "exhausted", !.calls = @ + 1,
                   !.lastErr = r.calls + 1, !.cited = CitedAttempts(cfg),
                   !.label = cfg.OperationName]
    ELSE [r EXCEPT !.st = "sleep", !.calls = @ + 1, !.lastErr = r.calls + 1,
                   !.delay = BackoffDelay(cfg, r.attempt),
                   !.remaining = BackoffDelay(cfg, r.attempt)]

\* mutant: the backoff select has no ctx.Done() case and sleeps the delay out
RetrySleepIgnoresCancel(r, cfg) ==
    [r EXCEPT !.st = "attempt", !.attempt = @ + 1]

\* the backoff select, case <-ctx.Done(): return "cancelled during backoff"
RetrySleepCancelled(r, cfg) ==
    [r EXCEPT !.st = "ret", !.res = "cancelled_backoff",
              !.label = cfg.OperationName]

\* the backoff delay elapses: time.After(delay) becomes ready
RetryTimerFires(r) == [r EXCEPT !.remaining = 0]

\* the backoff select, case <-time.After(delay): next iteration, attempt++
RetryWake(r) ==
    [r EXCEPT !.st = "attempt", !.attempt = @ + 1,
              !.slept = Append(@, r.delay)]

(* --------------------- quarantine area (s3_uploader.go) ---------------- *)

EmptyDir == [f \in Files |-> NoFile]

\* the regular files found in a directory
DirFiles(dir) == {f \in Files : dir[f] # NoFile}

RECURSIVE SumSizes(_, _)
SumSizes(dir, S) ==
    IF S = {} THEN 0
    ELSE LET f == CHOOSE x \in S : TRUE
         IN  dir[f] + SumSizes(dir, S \ {f})

\* getDirSize: WalkDir adding info.Size() of every non-directory entry
getDirSize(dir) == SumSizes(dir, DirFiles(dir))

\* mutant: a directory exactly at the cap is not cleared
ShouldClearAbove(dirSize) == dirSize > maxFailedUploadDirSize

\* moveToFailedDir: else if dirSize >= maxFailedUploadDirSize { clearDirectory }
ShouldClear(dirSize) == dirSize >= maxFailedUploadDirSize

\* mutant: the loop would stop at the first Remove that fails
clearDirectoryStopsAtFailure(dir, stuck) ==
    IF stuck = {} THEN [f \in Files |-> NoFile] ELSE dir

\* clearDirectory: os.Remove on every entry; a failed Remove is logged and the
\* loop goes on. `stuck` are the entries whose Remove fails.
clearDirectory(dir, stuck) ==
    [f \in Files |-> IF f \in stuck THEN dir[f] ELSE NoFile]

\* mutant: the file is copied, not moved
RenameSrcKeeps(src, f) == src

\* os.Rename(filePath, destPath): the file leaves src and replaces dst's entry
RenameSrc(src, f) == [src EXCEPT ![f] = NoFile]
RenameDst(src, dst, f) == [dst EXCEPT ![f] = src[f]]

(* --------------------- control flow of Upload / processVideo ----------- *)

\* mutant: the transfer error is not checked
AfterTransferIgnoringError(xferRes) == "verify"

\* Upload: if err != nil { return "", ... } after the transfer retry loop
AfterTransfer(xferRes) == IF xferRes = "ok" THEN "verify" ELSE "return_err"

\* mutant: the clip is quarantined whatever verifyUpload returned
AfterVerifyAlwaysQuarantine(verRes) == "q_measure"

\* Upload: if err := u.verifyUpload(...); err != nil { moveToFailedDir; return err }
AfterVerify(verRes) == IF verRes = "ok" THEN "return_ok" ELSE "q_measure"

\* mutant: processVideo goes on after an Upload error
AfterUploadIgnoringError(uploadOk) == "sign"

\* processVideo: if err != nil { log; return } after Upload
AfterUpload(uploadOk) == IF uploadOk THEN "sign" ELSE "done"

\* Publish would go on to the topic with whatever SignURL returned
AfterSignIgnoringError(signOk) == "publish"
\* Publish: if err != nil { return ... } after SignURL
AfterSign(signOk) == IF signOk THEN "publish" ELSE "return_err"

\* mutant: processVideo returns on a Publish error
AfterPublishStopOnError(pubOk) == IF pubOk THEN "remove" ELSE "done"

\* processVideo: a Publish error is logged, "Continue to cleanup even if SNS fails"
AfterPublish(pubOk) == "remove"

(* --------------------------- CloudFrontSigner -------------------------- *)
\* In this section instants are records [sec, ms] (epoch seconds and the
\* milliseconds within the second) and the signing TTL is in seconds.

\* cloudfront_signer.go: urlExpirationDuration = 30 * 24 * time.Hour
urlExpirationDuration == 2592000
\* cloudfront_signer.go: cloudFrontKeyPairID
cloudFrontKeyPairID == "KB3JCDFGZQN4L"
\* the query parameters SignURL sets
SignParams == {"Expires", "Signature", "Key-Pair-Id"}

\* time.Time.Add(d) for a whole number of seconds, and time.Time.Unix()
Add(t, d) == [t EXCEPT !.sec = @ + d]
Unix(t) == t.sec

\* strconv.FormatInt(n, 10) and Sprintf's %d for n >= 0: the decimal digits
DigitChars == <<"0", "1", "2", "3", "4", "5", "6", "7", "8", "9">>
RECURSIVE FormatInt(_)
FormatInt(n) ==
    IF n < 10 THEN <<DigitChars[n + 1]>>
    ELSE Append(FormatInt(n \div 10), DigitChars[(n % 10) + 1])

\* A URL is [wellFormed, base, query]: whether url.Parse accepts it, its
\* text up to the "?", and its query as a function from parameter names to
\* values. A value is [plain, signer, over]: its text as a sequence of
\* tokens, and for a signature the key and the policy it was made from.
NoURL == [wellFormed |-> FALSE, base |-> "", query |-> <<>>]
NoPolicy == [Resource |-> NoURL, EpochTime |-> <<>>]
Plain(text) == [plain |-> text, signer |-> "", over |-> NoPolicy]

\* the canned policy of SignURL: Sprintf with the raw URL (%s) and the
\* expiry (%d)
Policy(rawURL, expirationTime) ==
    [Resource |-> rawURL, EpochTime |-> FormatInt(expirationTime)]

\* signPolicy: RSA-SHA1 PKCS#1 v1.5 of the policy under the private key,
\* base64 with + = / replaced by - _ ~. The signature is a function of the
\* key and the policy text; distinct (key, policy) pairs give distinct
\* signatures.
signPolicy(key, policy) == [plain |-> <<>>, signer |-> key, over |-> policy]

\* verification of a signature against a policy under the public key of `key`
Verifies(key, policy, signature) ==
    signature.signer = key /\ signature.over = policy

\* the expiry would be that of the issuing instant itself
ExpirationTimeNoTTL(now) == Unix(now)
\* the expiry would be computed once and reused by later calls
ExpirationTimeFrozen(now) == urlExpirationDuration
\* SignURL: time.Now().Add(urlExpirationDuration).Unix()
ExpirationTime(now) == Unix(Add(now, urlExpirationDuration))

\* a query value url.ParseQuery can unescape
WellEscaped(v) == v.plain # <<"%zz">>
\* parsedURL.Query(): the pairs of the raw query, malformed pairs discarded
ParseQuery(q) == [k \in {x \in DOMAIN q : WellEscaped(q[x])} |-> q[k]]

\* the value would only be set for a name the query does not have yet
QueryKeep(q, k, v) ==
    [x \in DOMAIN q \cup {k} |-> IF x \in DOMAIN q THEN q[x] ELSE v]
\* url.Values.Set(k, v): replaces whatever values k had
QuerySet(q, k, v) ==
    [x \in DOMAIN q \cup {k} |-> IF x = k THEN v ELSE q[x]]

\* CloudFrontSigner.SignURL(rawURL) called at instant `now` by a signer
\* holding private key `key`; signOk: rsa.SignPKCS1v15 returns no error
SignURL(rawURL, now, key, signOk) ==
    IF ~rawURL.wellFormed THEN [err |-> "parse", url |-> NoURL]
    ELSE LET expirationTime == ExpirationTime(now)
             policy == Policy(rawURL, expirationTime)
             signature == signPolicy(key, policy)
             q1 == QuerySet(ParseQuery(rawURL.query), "Expires",
                            Plain(FormatInt(expirationTime)))
             q2 == QuerySet(q1, "Signature", signature)
             q3 == QuerySet(q2, "Key-Pair-Id", Plain(<<cloudFrontKeyPairID>>))
         IN  IF ~signOk THEN [err |-> "sign", url |-> NoURL]
             ELSE [err |-> "none", url |-> [rawURL EXCEPT !.query = q3]]

\* the CloudFrontSigner struct: privateKey and keyPairID (ssmClient is kept
\* but never used after construction)
NoSigner == [privateKey |-> "", keyPairID |-> ""]

\* NewCloudFrontSigner: LoadDefaultConfig, one ssm GetParameter of the
\* private key parameter, parsePrivateKey. `stored` is the key held by the
\* parameter store, `outcome` the step that fails, if any. ssmReads is the
\* number of GetParameter calls made.
NewCloudFrontSigner(stored, outcome) ==
    IF outcome = "config" THEN [err |-> "config", signer |-> NoSigner, ssmReads |-> 0]
    ELSE IF outcome \in {"ssm", "parse"}
    THEN [err |-> outcome, signer |-> NoSigner, ssmReads |-> 1]
    ELSE [err |-> "none", ssmReads |-> 1,
          signer |-> [privateKey |-> stored, keyPairID |-> cloudFrontKeyPairID]]

\* mutant: SignURL would fetch the key again on every call
SsmReadsAfterRefetch(n) == n + 1

\* SignURL and signPolicy use s.privateKey and make no call on s.ssmClient
SsmReadsAfterSignURL(n) == n

\* SignURL and signPolicy assign no field of the receiver
SignerAfterSignURL(signer) == signer

\* SignSpec's state before any call
NoSignResult == [err |-> "pending", url |-> NoURL]
SignIdle == [url |-> NoURL, key |-> "", signOk |-> FALSE,
             t1 |-> [sec |-> 0, ms |-> 0], t2 |-> [sec |-> 0, ms |-> 0],
             pc |-> "idle", r1 |-> NoSignResult, r2 |-> NoSignResult,
             signer |-> NoSigner, ssmReads |-> 0]

(* ------------------------------ LoadConfig ----------------------------- *)
\* the environment variables LoadConfig reads; the environment is the one
\* os.Getenv sees after godotenv.Load, an unset variable reading as ""
EnvNames == {"AWS_REGION", "S3_BUCKET", "SNS_TOPIC_ARN", "VIDEO_DIR",
             "CLOUDFRONT_DOMAIN"}

\* getEnv would hand back the variable as it is
getEnvNoDefault(env, key, defaultValue) == env[key]
\* getEnv(key, defaultValue)
getEnv(env, key, defaultValue) ==
    IF env[key] = "" THEN defaultValue ELSE env[key]

NoConfig == [AWSRegion |-> "", S3Bucket |-> "", SNSTopicARN |-> "",
             VideoDir |-> "", CloudFrontDomain |-> ""]

\* config.LoadConfig(): the configuration, or the error naming the first
\* required variable that is missing
LoadConfig(env) ==
    LET cfg == [AWSRegion |-> getEnv(env, "AWS_REGION", "ap-southeast-2"),
                S3Bucket |-> getEnv(env, "S3_BUCKET", ""),
                SNSTopicARN |-> getEnv(env, "SNS_TOPIC_ARN", ""),
                VideoDir |-> getEnv(env, "VIDEO_DIR", "/tmp/videos"),
                CloudFrontDomain |-> getEnv(env, "CLOUDFRONT_DOMAIN", "")]
    IN  IF cfg.S3Bucket = "" THEN [err |-> "S3_BUCKET", cfg |-> NoConfig]
        ELSE IF cfg.SNSTopicARN = ""
        THEN [err |-> "SNS_TOPIC_ARN", cfg |-> NoConfig]
        ELSE IF cfg.CloudFrontDomain = ""
        THEN [err |-> "CLOUDFRONT_DOMAIN", cfg |-> NoConfig]
        ELSE [err |-> "", cfg |-> cfg]

\* ConfigSpec's state before main has run
\* booted: the components main has constructed so far, in order
ConfigIdle == [env |-> [n \in EnvNames |-> ""], pc |-> "idle",
               out |-> [err |-> "", cfg |-> NoConfig], booted |-> <<>>]

\* mutant: the publisher would be constructed before the signer it needs
BootOrderPublisherFirst == <<"publisher", "signer", "uploader", "watcher">>

\* main constructs, in this order: NewCloudFrontSigner, NewS3Uploader,
\* NewSNSPublisher (given the signer), NewFileWatcher (given the uploader
\* and the publisher)
BootOrder == <<"signer", "uploader", "publisher", "watcher">>

(* ------------------- keys, URLs and notifications ---------------------- *)
\* cfg.VideoDir and cfg.CloudFrontDomain of the running process
VideoDir == "/tmp/videos"
CloudFrontDomain == "cdn.example.net"
\* the private key held by the process's CloudFrontSigner
SignerKey == "k1"

\* event.Name of clip f: a path in the watched directory
FileName(f) == "clip" \o ToString(f) \o ".mp4"
FilePath(f) == [dir |-> VideoDir, name |-> FileName(f)]
\* filepath.Base(filePath)
Base(filePath) == filePath.name

\* the key would be made from the whole local path
S3KeyFullPath(filePath) == "videos/" \o filePath.dir \o "/" \o filePath.name
\* Upload: key := "videos/" + filepath.Base(filePath)
S3Key(filePath) == "videos/" \o Base(filePath)

\* Publish: cloudFrontURL := Sprintf("https://%s/%s", cloudFrontDomain, s3Key);
\* wf: url.Parse accepts that text (domain and file name have no invalid
\* character or escape)
PublicURL(cloudFrontDomain, s3Key, wf) ==
    [wellFormed |-> wf, base |-> "https://" \o cloudFrontDomain \o "/" \o s3Key,
     query |-> <<>>]

\* time.Now().UTC().Format(time.RFC3339): no fraction of a second
RFC3339(t) == [t EXCEPT !.ms = 0]

\* Publish: the VideoNotification that is marshalled and sent
Notification(s3Key, now, signedURL) ==
    [s3_key |-> s3Key, timestamp |-> RFC3339(now),
     event_type |-> "human_detected", cloudfront_url |-> signedURL]
NoNotification ==
    [s3_key |-> "", timestamp |-> [sec |-> 0, ms |-> 0], event_type |-> "",
     cloudfront_url |-> NoURL]

\* instants at which a task may be in Publish
PublishInstants == {[sec |-> 1, ms |-> 400], [sec |-> 2, ms |-> 0]}

\* what the steps of one processVideo call returned so far; key is the
\* s3Key Upload returned, msg the notification Publish marshalled; dirSize is
\* moveToFailedDir's local (NoFile until getDirSize returned it); early
\* records that a backoff select returned on ctx.Done() before its delay was over
NoRes == [xfer |-> "none", verify |-> "none", move |-> "none", upload |-> "none",
          sign |-> "none", pub |-> "none", rm |-> "none",
          dirSize |-> NoFile, early |-> FALSE,
          key |-> "", msg |-> NoNotification]

NoCtx == [elapsed |-> 0, timeout |-> 0]
\* context.WithTimeout(ctx, d)
WithTimeout(d) == [elapsed |-> 0, timeout |-> d]

\* the deadline of a timeout context has passed for certain
Overdue(c) == c.elapsed >= c.timeout

\* ctx.Done() of a task's timeout context is closed when the task looks at
\* it: the parent is cancelled or the deadline has passed. `expired` is the
\* deadline having passed because the calls took that long; whoever sees the
\* context done returns, so no task looks at an expired context twice.
Done(t, expired) == cancelled \/ expired \/ Overdue(tctx[t])

\* `d` more milliseconds have certainly passed since the context was created.
\* elapsed is a lower bound of the context's age (the calls take time too);
\* the deadline has passed for certain once it reaches the timeout.
Elapse(c, d) ==
    [c EXCEPT !.elapsed = IF c.elapsed + d >= c.timeout THEN c.timeout
                          ELSE c.elapsed + d]

\* the same context handed to the next retry loop (uploadCtx goes from the
\* transfer loop to verifyUpload): only the lower bound of its age restarts
StillRunning(c) == [c EXCEPT !.elapsed = 0]

\* the phases of processVideo spent inside a RetryWithBackoff call
RetryPhases == {"transfer", "verify", "publish"}

(* ------------------------------ Init ----------------------------------- *)

\* RetrySpec's call: the policy, which call of fn first succeeds, whether
\* the context is done, and where the executor was (with how many calls
\* made) when it became so
(* ------------------ the event filter of FileWatcher.Watch -------------- *)

\* fsnotify.Op is a bit set of these operations
FsOps == {"Create", "Write", "Remove", "Rename", "Chmod"}

\* path names, as sequences of characters
NoName == <<>>
FsNames ==
    { <<"c", ".", "m", "p", "4">>,
      <<"d", "/", "c", ".", "m", "p", "4">>,
      <<".", "m", "p", "4">>,
      <<"c", ".", "M", "P", "4">>,
      <<"c", ".", "m", "p", "4", ".", "t">>,
      <<"c", ".", "t">>,
      <<"c", "m", "p", "4">>,
      <<"d", ".", "m", "p", "4", "/", "c">> }

\* filepath.Ext: the suffix beginning at the final dot in the final element
\* of the path, empty if that element has no dot
RECURSIVE ExtFrom(_, _)
ExtFrom(path, i) ==
    IF i = 0 \/ path[i] = "/" THEN <<>>
    ELSE IF path[i] = "." THEN SubSeq(path, i, Len(path))
    ELSE ExtFrom(path, i - 1)

Ext(path) == ExtFrom(path, Len(path))

\* mutant: a write to a file would count as its creation
IsCreateOrWrite(op) == op \cap {"Create", "Write"} # {}

\* event.Op&fsnotify.Create == fsnotify.Create
IsCreate(op) == "Create" \in op

\* Watch starts processVideo for this event
ShouldDispatch(event) ==
    IsCreate(event.Op) /\ Ext(event.Name) = <<".", "m", "p", "4">>

\* received: events taken from fw.watcher.Events; last: the latest of
\* them; tasks: the paths processVideo goroutines were started with
WatchIdle == [received |-> 0, last |-> [Op |-> {}, Name |-> NoName], tasks |-> <<>>]

(* ----------------------- dashboard: useSQSPolling --------------------- *)

\* a field that is missing from a parsed object
Undefined == "undefined"
\* !x for a string or missing field
Falsy(x) == x \in {"", Undefined}

\* null, where a VideoNotification is expected
NoVideo == [cloudfront_url |-> "", timestamp |-> ""]
\* what getMostRecentVideo makes of the newest object in the bucket
S3Video == [cloudfront_url |-> "u0", timestamp |-> "t0"]

\* message bodies: json says whether JSON.parse accepts the text, Message
\* is the SNS envelope's Message field, itself a text that parses or not
JsonBody(url, ts) ==
    [json |-> TRUE, Message |-> [json |-> TRUE, cloudfront_url |-> url, timestamp |-> ts]]
GarbageBody ==
    [json |-> FALSE, Message |-> [json |-> FALSE, cloudfront_url |-> Undefined,
                                   timestamp |-> Undefined]]
GarbageInnerBody ==
    [json |-> TRUE, Message |-> [json |-> FALSE, cloudfront_url |-> Undefined,
                                  timestamp |-> Undefined]]

\* the messages the queue may deliver (any of them any number of times)
SqsIds == 1..8
SqsMessage(m) ==
    CASE m = 1 -> [hasBody |-> TRUE, Body |-> JsonBody("u1", "t1"), ReceiptHandle |-> "h1"]
      [] m = 2 -> [hasBody |-> TRUE, Body |-> JsonBody("u2", "t2"), ReceiptHandle |-> "h2"]
      [] m = 3 -> [hasBody |-> TRUE, Body |-> GarbageBody, ReceiptHandle |-> "h3"]
      [] m = 4 -> [hasBody |-> TRUE, Body |-> GarbageInnerBody, ReceiptHandle |-> "h4"]
      [] m = 5 -> [hasBody |-> TRUE, Body |-> JsonBody(Undefined, "t5"), ReceiptHandle |-> "h5"]
      [] m = 6 -> [hasBody |-> TRUE, Body |-> JsonBody("u6", ""), ReceiptHandle |-> "h6"]
      [] m = 7 -> [hasBody |-> TRUE, Body |-> JsonBody("u7", "t7"), ReceiptHandle |-> ""]
      [] OTHER -> [hasBody |-> FALSE, Body |-> GarbageBody, ReceiptHandle |-> "h8"]

\* mutant: the notification would be returned without looking at its fields
parseNotificationUnchecked(messageBody) ==
    IF ~messageBody.json \/ ~messageBody.Message.json THEN NoVideo
    ELSE [cloudfront_url |-> messageBody.Message.cloudfront_url,
          timestamp |-> messageBody.Message.timestamp]

\* parseNotification: null when either JSON.parse throws or a required
\* field is missing or empty
parseNotification(messageBody) ==
    IF ~messageBody.json THEN NoVideo
    ELSE IF ~messageBody.Message.json THEN NoVideo
    ELSE IF Falsy(messageBody.Message.cloudfront_url)
            \/ Falsy(messageBody.Message.timestamp) THEN NoVideo
    ELSE [cloudfront_url |-> messageBody.Message.cloudfront_url,
          timestamp |-> messageBody.Message.timestamp]

\* one call of poll(): where it is suspended, the isAuthenticated its
\* closure captured, retryWithBackoff's i, the message being deleted, and
\* whether the effect run that called it has been cleaned up since
NoLoop == [pc |-> "none", isAuthenticated |-> FALSE, i |-> 0, msg |-> 0,
           cleanedUp |-> FALSE]

\* the hook's state: React state (isAuthenticated, latestVideo, isPolling),
\* pollingRef.current, localStorage's eyeseeyou_latest_video, whether the
\* effect is due to run and has a cleanup, the calls in flight, and the
\* messages handled so far (deleteCalls, setCalls, persisted)
PollIdle ==
    [mounted |-> FALSE, isAuthenticated |-> FALSE, latestVideo |-> NoVideo,
     isPolling |-> FALSE, localStorage |-> NoVideo, pollingRef |-> FALSE,
     effectPending |-> FALSE, hasCleanup |-> FALSE, fetching |-> 0,
     loops |-> [l \in 1..MaxLoops |-> NoLoop], polls |-> 0,
     deleteCalls |-> {}, setCalls |-> {}, persisted |-> {}]

RetryIdle == [cfg |-> DefaultRetryConfig(""), firstOk |-> 0, done |-> FALSE,
              doneAt |-> "never", doneCalls |-> 0, r |-> NewRetry,
              active |-> FALSE]

Init ==
    /\ cancelled = FALSE
    /\ watchPc = "start"
    /\ watcherErrors = <<>>
    /\ started = 0
    /\ watchedDir = EmptyDir
    /\ failedDir = EmptyDir
    /\ remote = {}
    /\ topic = EmptyBag
    /\ phase = [t \in Tasks |-> "idle"]
    /\ file = [t \in Tasks |-> 0]
    /\ rt = [t \in Tasks |-> NewRetry]
    /\ tctx = [t \in Tasks |-> NoCtx]
    /\ res = [t \in Tasks |-> NoRes]
    /\ mainPc = "select"
    /\ events = <<>>
    /\ sg = SignIdle
    /\ cf = ConfigIdle
    /\ wx = WatchIdle
    /\ px = PollIdle
    /\ rx = RetryIdle

(* ------------------------- main / FileWatcher.Watch -------------------- *)

\* the process is alive: main has not returned
Running == mainPc # "exited"

\* Watch up to its loop: os.MkdirAll(fw.cfg.VideoDir) and fw.watcher.Add
\* both succeed; from here on fsnotify reports what happens in the directory
WatchStart ==
    /\ Running
    /\ watchPc = "start"
    /\ watchPc' = "loop"
    /\ UNCHANGED <<cancelled, watcherErrors, started, watchedDir, failedDir,
                   remote, topic, phase, file, rt, tctx, res, rx, mainPc,
                   events, sg, cf, wx, px>>

\* Watch: MkdirAll or watcher.Add fails and Watch returns the error; the
\* goroutine started by main sends it on watcherErrors (the send cannot
\* block: the channel has room for one error and Watch returns once)
WatchStartFails(step) ==
    /\ Running
    /\ watchPc = "start"
    /\ watchPc' = "failed"
    /\ watcherErrors' = Append(watcherErrors, step)
    /\ UNCHANGED <<cancelled, started, watchedDir, failedDir, remote, topic,
                   phase, file, rt, tctx, res, rx, mainPc, events, sg, cf, wx, px>>

\* mutant: main would wait for a signal only
WatcherErrorIgnored(ch) == FALSE

\* main's select: case err := <-watcherErrors is ready
WatcherErrorReady(ch) == ch # <<>>

\* main's select takes case err := <-watcherErrors: log, cancel()
MainWatcherError ==
    /\ mainPc = "select"
    /\ ~cancelled
    /\ WatcherErrorReady(watcherErrors)
    /\ watcherErrors' = Tail(watcherErrors)
    /\ cancelled' = TRUE
    /\ UNCHANGED <<watchPc, started, watchedDir, failedDir, remote, topic,
                   phase, file, rt, tctx, res, rx, mainPc, events, sg, cf, wx, px>>

\* main's select takes case sig := <-sigChan: a termination signal has
\* arrived and cancel() is called
Cancel ==
    /\ Running
    /\ ~cancelled
    /\ cancelled' = TRUE
    /\ UNCHANGED <<watchPc, watcherErrors, started, watchedDir, failedDir, remote, topic,
                   phase, file, rt, tctx, res, rx, mainPc, events, sg, cf, wx, px>>

\* Watch: case <-ctx.Done(): fw.watcher.Close(); return nil
WatchShutdown ==
    /\ Running
    /\ watching
    /\ cancelled
    /\ watchPc' = "returned"
    /\ UNCHANGED <<cancelled, watcherErrors, started, watchedDir, failedDir, remote, topic,
                   phase, file, rt, tctx, res, rx, mainPc, events, sg, cf, wx, px>>

\* mutant: the fsnotify channels could close while the program runs on
WatcherClosedAnyTime(pc) == TRUE

\* fw.watcher.Events and fw.watcher.Errors are closed: fsnotify closes them
\* when the watcher is closed, and the program closes it in Watch's
\* ctx.Done() case (which returns at once) and in main's deferred
\* fileWatcher.Close()
WatcherClosed(pc) == pc = "deferred"

\* Watch: case event, ok := <-fw.watcher.Events or case err, ok :=
\* <-fw.watcher.Errors with !ok: return nil, and the goroutine started by
\* main sends nothing on watcherErrors
WatchChannelClosed ==
    /\ Running
    /\ watching
    /\ WatcherClosed(mainPc)
    /\ watchPc' = "closed"
    /\ UNCHANGED <<cancelled, watcherErrors, started, watchedDir, failedDir, remote, topic,
                   phase, file, rt, tctx, res, rx, mainPc, events, sg, cf, wx, px>>

\* main: after cancel() main logs "Shutdown complete." and returns; the
\* deferred fileWatcher.Close() runs
MainReturns ==
    /\ mainPc = "select"
    /\ cancelled
    /\ mainPc' = "deferred"
    /\ UNCHANGED <<cancelled, watchPc, watcherErrors, started, watchedDir, failedDir, remote,
                   topic, phase, file, rt, tctx, res, rx, events, sg, cf, wx, px>>

\* main: the deferred cancel() runs and the process exits with whatever
\* goroutines are still running
MainExit ==
    /\ mainPc = "deferred"
    /\ cancelled
    /\ mainPc' = "exited"
    /\ UNCHANGED <<cancelled, watchPc, watcherErrors, started, watchedDir, failedDir, remote,
                   topic, phase, file, rt, tctx, res, rx, events, sg, cf, wx, px>>

\* paths that have had a Create event so far, and the next path never used
\* (paths are numbered in the order of their first event)
SeenFiles == {file[t] : t \in 1..started} \cup {events[i] : i \in 1..Len(events)}
FreshFile == Cardinality(SeenFiles) + 1

\* The detector writes (or replaces) clip f, of size sz, in the watched
\* directory and fsnotify queues the Create event for the .mp4 path. For a
\* path that is already there with that size this is a repeated Create
\* event for the same clip.
DetectorWrites(f, sz) ==
    /\ Running
    /\ watching
    /\ started + Len(events) < MaxTasks
    /\ f \in SeenFiles \cup {FreshFile}
    /\ watchedDir' = [watchedDir EXCEPT ![f] = sz]
    /\ events' = Append(events, f)
    /\ UNCHANGED <<cancelled, watchPc, watcherErrors, started, failedDir, remote, topic,
                   phase, file, rt, tctx, res, rx, mainPc, sg, cf, wx, px>>

\* the processVideo goroutines that have not returned
InFlight == {t \in Tasks : phase[t] \notin {"idle", "done"}}

\* Watch's loop would stay busy for as long as a clip is being processed
GoWaitsForTasks(busy) == busy = {}
\* the go statement returns at once: Watch is back at its select whatever
\* the goroutines it started are doing
GoReturnsAtOnce(busy) == TRUE

\* Watch: case event := <-fw.watcher.Events with a Create of an .mp4 path:
\* go fw.processVideo(ctx, event.Name). The select may take this case with
\* ctx.Done() ready as well.
WatchDispatch ==
    /\ Running
    /\ watching
    /\ events # <<>>
    /\ GoReturnsAtOnce(InFlight)
    /\ LET t == started + 1 IN
        /\ started' = t
        /\ phase' = [phase EXCEPT ![t] = "settle"]
        /\ file' = [file EXCEPT ![t] = Head(events)]
    /\ events' = Tail(events)
    /\ UNCHANGED <<cancelled, watchPc, watcherErrors, watchedDir, failedDir, remote, topic,
                   rt, tctx, res, rx, mainPc, sg, cf, wx, px>>

(* ----------------------------- processVideo ---------------------------- *)

\* time.Sleep(1 * time.Second) is over; Upload starts: uploadCtx is created
\* and the transfer retry loop is entered
Settle(t) ==
    /\ Running
    /\ phase[t] = "settle"
    /\ phase' = [phase EXCEPT ![t] = "transfer"]
    /\ rt' = [rt EXCEPT ![t] = NewRetry]
    /\ tctx' = [tctx EXCEPT ![t] = WithTimeout(s3UploadTimeout)]
    /\ UNCHANGED <<cancelled, watchPc, watcherErrors, started, watchedDir, failedDir, remote,
                   topic, file, res, rx, mainPc, events, sg, cf, wx, px>>

\* Upload returns ("", err) or (key, nil) and processVideo goes on from there
UploadReturns(t, ok, r) ==
    /\ phase' = [phase EXCEPT ![t] = AfterUpload(ok)]
    /\ res' = [res EXCEPT ![t] =
            [r EXCEPT !.upload = IF ok THEN "ok" ELSE "err",
                      !.key = IF ok THEN S3Key(FilePath(file[t])) ELSE ""]]
    /\ rt' = [rt EXCEPT ![t] = NewRetry]
    /\ tctx' = [tctx EXCEPT ![t] = NoCtx]

\* Publish returns and processVideo goes on from there
PublishReturns(t, ok, r) ==
    /\ phase' = [phase EXCEPT ![t] = AfterPublish(ok)]
    /\ res' = [res EXCEPT ![t] = r]
    /\ rt' = [rt EXCEPT ![t] = NewRetry]
    /\ tctx' = [tctx EXCEPT ![t] = NoCtx]

\* The RetryWithBackoff call of task t returns r2.res to its caller
\* (Upload, verifyUpload or Publish), which goes on from there.
RetryReturns(t, r2) ==
    LET r0 == [res[t] EXCEPT !.early = r2.res = "cancelled_backoff" /\ r2.remaining > 0]
    IN
    /\ r2.st = "ret"
    /\ CASE phase[t] = "transfer" ->
              IF AfterTransfer(r2.res) = "verify"
              THEN /\ phase' = [phase EXCEPT ![t] = "verify"]
                   /\ res' = [res EXCEPT ![t].xfer = r2.res]
                   /\ rt' = [rt EXCEPT ![t] = NewRetry]
                   /\ tctx' = [tctx EXCEPT ![t] = StillRunning(tctx[t])]
              ELSE UploadReturns(t, FALSE, [r0 EXCEPT !.xfer = r2.res])
         [] phase[t] = "verify" ->
              IF AfterVerify(r2.res) = "return_ok"
              THEN UploadReturns(t, TRUE, [res[t] EXCEPT !.verify = r2.res])
              ELSE /\ phase' = [phase EXCEPT ![t] = "q_measure"]
                   /\ res' = [res EXCEPT ![t] = [r0 EXCEPT !.verify = r2.res]]
                   /\ rt' = [rt EXCEPT ![t] = NewRetry]
                   /\ tctx' = [tctx EXCEPT ![t] = NoCtx]
         [] phase[t] = "publish" ->
              PublishReturns(t, r2.res = "ok", [r0 EXCEPT !.pub = r2.res])

\* the RetryWithBackoff call of task t moves to r2: it returns or sleeps
RetryStep(t, r2) ==
    IF r2.st = "ret"
    THEN RetryReturns(t, r2)
    ELSE /\ rt' = [rt EXCEPT ![t] = r2]
         /\ UNCHANGED <<phase, res, tctx>>

\* the retryConfig of the RetryWithBackoff call task t is in: Upload's
\* DefaultRetryConfig("S3 upload <filename>"), verifyUpload's literal, or
\* Publish's DefaultRetryConfig("SNS publish")
RetryConfigOf(t) ==
    CASE phase[t] = "transfer" ->
            DefaultRetryConfig("S3 upload " \o Base(FilePath(file[t])))
      [] phase[t] = "verify" -> VerifyRetryConfig(S3Key(FilePath(file[t])))
      [] OTHER -> DefaultRetryConfig("SNS publish")

\* os.Open(filePath) in the transfer closure
CanOpen(dir, f) == dir[f] # NoFile

\* One iteration of the transfer retry loop: ctx check, then os.Open and
\* uploader.Upload (PutObject under key videos/<filename>).
TransferAttempt(t) ==
    /\ Running
    /\ phase[t] = "transfer"
    /\ rt[t].st = "attempt"
    /\ \E ok, expired \in BOOLEAN :
        /\ ok => CanOpen(watchedDir, file[t]) /\ ~Done(t, expired)
        /\ RetryStep(t, RetryAttempt(rt[t], RetryConfigOf(t), Done(t, expired), ok))
        /\ remote' = IF ok THEN remote \cup {S3Key(FilePath(file[t]))} ELSE remote
    /\ UNCHANGED <<cancelled, watchPc, watcherErrors, started, watchedDir, failedDir, topic,
                   file, rx, mainPc, events, sg, cf, wx, px>>

\* One iteration of verifyUpload's retry loop: ctx check, then HeadObject
VerifyAttempt(t) ==
    /\ Running
    /\ phase[t] = "verify"
    /\ rt[t].st = "attempt"
    /\ \E ok, expired \in BOOLEAN :
        /\ ok => S3Key(FilePath(file[t])) \in remote /\ ~Done(t, expired)
        /\ RetryStep(t, RetryAttempt(rt[t], RetryConfigOf(t), Done(t, expired), ok))
    /\ UNCHANGED <<cancelled, watchPc, watcherErrors, started, watchedDir, failedDir, remote,
                   topic, file, rx, mainPc, events, sg, cf, wx, px>>

\* One iteration of Publish's retry loop: ctx check, then sns Publish
PublishAttempt(t) ==
    /\ Running
    /\ phase[t] = "publish"
    /\ rt[t].st = "attempt"
    /\ \E ok, expired \in BOOLEAN :
        /\ ok => ~Done(t, expired)
        /\ RetryStep(t, RetryAttempt(rt[t], RetryConfigOf(t), Done(t, expired), ok))
        /\ topic' = IF ok THEN topic (+) SetToBag({res[t].msg}) ELSE topic
    /\ UNCHANGED <<cancelled, watchPc, watcherErrors, started, watchedDir, failedDir, remote,
                   file, rx, mainPc, events, sg, cf, wx, px>>

\* the backoff select of task t takes case <-ctx.Done()
BackoffCancelled(t) ==
    /\ Running
    /\ phase[t] \in RetryPhases
    /\ rt[t].st = "sleep"
    /\ \E expired \in BOOLEAN : Done(t, expired)
    /\ RetryStep(t, RetrySleepCancelled(rt[t], RetryConfigOf(t)))
    /\ UNCHANGED <<cancelled, watchPc, watcherErrors, started, watchedDir, failedDir, remote,
                   topic, file, rx, mainPc, events, sg, cf, wx, px>>

\* the backoff delay of task t elapses
BackoffTimer(t) ==
    /\ Running
    /\ phase[t] \in RetryPhases
    /\ rt[t].st = "sleep"
    /\ rt[t].remaining > 0
    /\ rt' = [rt EXCEPT ![t] = RetryTimerFires(rt[t])]
    /\ tctx' = [tctx EXCEPT ![t] = Elapse(tctx[t], rt[t].remaining)]
    /\ UNCHANGED <<cancelled, watchPc, watcherErrors, started, watchedDir, failedDir, remote,
                   topic, phase, file, res, rx, mainPc, events, sg, cf, wx, px>>

\* the backoff select of task t takes case <-time.After(delay)
BackoffWake(t) ==
    /\ Running
    /\ phase[t] \in RetryPhases
    /\ rt[t].st = "sleep"
    /\ rt[t].remaining = 0
    /\ rt' = [rt EXCEPT ![t] = RetryWake(rt[t])]
    /\ UNCHANGED <<cancelled, watchPc, watcherErrors, started, watchedDir, failedDir, remote,
                   topic, phase, file, tctx, res, rx, mainPc, events, sg, cf, wx, px>>

\* moveToFailedDir up to the size check: MkdirAll, getDirSize, the comparison.
\* mk: MkdirAll succeeds; sz: getDirSize succeeds ("proceeding anyway" if not).
QMeasure(t) ==
    /\ Running
    /\ phase[t] = "q_measure"
    /\ \E mk, sz \in {TRUE, FALSE} :
        IF ~mk
        THEN UploadReturns(t, FALSE, [res[t] EXCEPT !.move = "err"])
        ELSE /\ phase' = [phase EXCEPT ![t] =
                    IF sz /\ ShouldClear(getDirSize(failedDir))
                    THEN "q_clear" ELSE "q_move"]
             /\ res' = [res EXCEPT ![t].dirSize =
                    IF sz THEN getDirSize(failedDir) ELSE NoFile]
             /\ UNCHANGED <<rt, tctx>>
    /\ UNCHANGED <<cancelled, watchPc, watcherErrors, started, watchedDir, failedDir, remote,
                   topic, file, rx, mainPc, events, sg, cf, wx, px>>

\* moveToFailedDir: clearDirectory(failedUploadDir). rd: os.ReadDir succeeds.
QClear(t) ==
    /\ Running
    /\ phase[t] = "q_clear"
    /\ \E rd \in BOOLEAN :
        IF ~rd
        THEN /\ UploadReturns(t, FALSE, [res[t] EXCEPT !.move = "err"])
             /\ UNCHANGED failedDir
        ELSE /\ \E stuck \in SUBSET DirFiles(failedDir) :
                    failedDir' = clearDirectory(failedDir, stuck)
             /\ phase' = [phase EXCEPT ![t] = "q_move"]
             /\ UNCHANGED <<res, rt, tctx>>
    /\ UNCHANGED <<cancelled, watchPc, watcherErrors, started, watchedDir, remote, topic,
                   file, rx, mainPc, events, sg, cf, wx, px>>

\* moveToFailedDir: os.Rename(filePath, destPath), then Upload returns the
\* verification error
QMove(t) ==
    /\ Running
    /\ phase[t] = "q_move"
    /\ \E ok \in BOOLEAN :
        /\ ok => watchedDir[file[t]] # NoFile
        /\ IF ok
           THEN /\ failedDir' = RenameDst(watchedDir, failedDir, file[t])
                /\ watchedDir' = RenameSrc(watchedDir, file[t])
           ELSE UNCHANGED <<watchedDir, failedDir>>
        /\ UploadReturns(t, FALSE,
                         [res[t] EXCEPT !.move = IF ok THEN "ok" ELSE "err"])
    /\ UNCHANGED <<cancelled, watchPc, watcherErrors, started, remote, topic, file, rx, mainPc, events, sg, cf, wx, px>>

\* Publish up to the retry loop: build the URL, SignURL, marshal the
\* notification, publishCtx
Sign(t) ==
    /\ Running
    /\ phase[t] = "sign"
    /\ \E wf, signOk \in BOOLEAN, now \in PublishInstants :
        LET r == SignURL(PublicURL(CloudFrontDomain, res[t].key, wf), now,
                         SignerKey, signOk)
            ok == r.err = "none"
            r1 == [res[t] EXCEPT !.sign = IF ok THEN "ok" ELSE "err"]
        IN  IF AfterSign(ok) = "publish"
            THEN /\ phase' = [phase EXCEPT ![t] = "publish"]
                 /\ res' = [res EXCEPT ![t] =
                        [r1 EXCEPT !.msg = Notification(res[t].key, now, r.url)]]
                 /\ rt' = [rt EXCEPT ![t] = NewRetry]
                 /\ tctx' = [tctx EXCEPT ![t] = WithTimeout(snsPublishTimeout)]
            ELSE PublishReturns(t, FALSE, [r1 EXCEPT !.pub = "sign_err"])
    /\ UNCHANGED <<cancelled, watchPc, watcherErrors, started, watchedDir, failedDir, remote,
                   topic, file, rx, mainPc, events, sg, cf, wx, px>>

\* processVideo: os.Remove(filePath), the local cleanup
Remove(t) ==
    /\ Running
    /\ phase[t] = "remove"
    /\ \E ok \in BOOLEAN :
        /\ ok => watchedDir[file[t]] # NoFile
        /\ watchedDir' = IF ok THEN [watchedDir EXCEPT ![file[t]] = NoFile]
                         ELSE watchedDir
        /\ res' = [res EXCEPT ![t].rm = IF ok THEN "ok" ELSE "err"]
    /\ phase' = [phase EXCEPT ![t] = "done"]
    /\ UNCHANGED <<cancelled, watchPc, watcherErrors, started, failedDir, remote, topic,
                   file, rt, tctx, rx, mainPc, events, sg, cf, wx, px>>

Next ==
    \/ WatchStart
    \/ \E step \in {"MkdirAll", "Add"} : WatchStartFails(step)
    \/ MainWatcherError
    \/ Cancel
    \/ MainReturns
    \/ MainExit
    \/ WatchShutdown
    \/ WatchChannelClosed
    \/ \E f \in Files, sz \in FileSizes : DetectorWrites(f, sz)
    \/ WatchDispatch
    \/ \E t \in Tasks : Settle(t)
    \/ \E t \in Tasks : TransferAttempt(t)
    \/ \E t \in Tasks : VerifyAttempt(t)
    \/ \E t \in Tasks : PublishAttempt(t)
    \/ \E t \in Tasks : BackoffCancelled(t)
    \/ \E t \in Tasks : BackoffTimer(t)
    \/ \E t \in Tasks : BackoffWake(t)
    \/ \E t \in Tasks : QMeasure(t)
    \/ \E t \in Tasks : QClear(t)
    \/ \E t \in Tasks : QMove(t)
    \/ \E t \in Tasks : Sign(t)
    \/ \E t \in Tasks : Remove(t)

Spec == Init /\ [][Next]_vars

(* ------------- EventSpec: Watch's loop on arbitrary events ------------- *)

EventInit ==
    /\ cancelled = FALSE
    /\ watchPc = "loop"
    /\ watcherErrors = <<>>
    /\ started = 0
    /\ watchedDir = EmptyDir
    /\ failedDir = EmptyDir
    /\ remote = {}
    /\ topic = EmptyBag
    /\ phase = [t \in Tasks |-> "idle"]
    /\ file = [t \in Tasks |-> 0]
    /\ rt = [t \in Tasks |-> NewRetry]
    /\ tctx = [t \in Tasks |-> NoCtx]
    /\ res = [t \in Tasks |-> NoRes]
    /\ mainPc = "select"
    /\ events = <<>>
    /\ sg = SignIdle
    /\ cf = ConfigIdle
    /\ rx = RetryIdle
    /\ wx = WatchIdle
    /\ px = PollIdle

WxUnchanged ==
    UNCHANGED <<cancelled, watchPc, watcherErrors, started, watchedDir, failedDir, remote,
                topic, phase, file, rt, tctx, res, rx, mainPc, events, sg, cf, px>>

\* Watch: case event, ok := <-fw.watcher.Events with ok: a task is started
\* for a Create of an .mp4 path, nothing is done for any other event
WxEvent(op, name) ==
    /\ wx.received < MaxEvents
    /\ LET event == [Op |-> op, Name |-> name] IN
        wx' = [wx EXCEPT !.received = @ + 1,
                         !.last = event,
                         !.tasks = IF ShouldDispatch(event) THEN Append(@, name) ELSE @]
    /\ WxUnchanged

EventNext == \E op \in (SUBSET FsOps) \ {{}}, name \in FsNames : WxEvent(op, name)

EventSpec == EventInit /\ [][EventNext]_vars

(* ------------- PollSpec: the dashboard's useSQSPolling hook ------------ *)

\* the component has mounted: latestVideo is hydrated from localStorage and
\* the effect is due to run
PollInit ==
    /\ cancelled = FALSE
    /\ watchPc = "start"
    /\ watcherErrors = <<>>
    /\ started = 0
    /\ watchedDir = EmptyDir
    /\ failedDir = EmptyDir
    /\ remote = {}
    /\ topic = EmptyBag
    /\ phase = [t \in Tasks |-> "idle"]
    /\ file = [t \in Tasks |-> 0]
    /\ rt = [t \in Tasks |-> NewRetry]
    /\ tctx = [t \in Tasks |-> NoCtx]
    /\ res = [t \in Tasks |-> NoRes]
    /\ mainPc = "select"
    /\ events = <<>>
    /\ sg = SignIdle
    /\ cf = ConfigIdle
    /\ rx = RetryIdle
    /\ wx = WatchIdle
    /\ \E stored \in {NoVideo, S3Video}, a \in BOOLEAN :
        px = [PollIdle EXCEPT !.mounted = TRUE, !.isAuthenticated = a,
                              !.latestVideo = stored, !.localStorage = stored,
                              !.effectPending = TRUE]

PxUnchanged ==
    UNCHANGED <<cancelled, watchPc, watcherErrors, started, watchedDir, failedDir, remote,
                topic, phase, file, rt, tctx, res, rx, mainPc, events, sg, cf, wx>>

\* the effect's cleanup: pollingRef.current = false; setIsPolling(false)
Cleanup(p) ==
    IF p.hasCleanup
    THEN [p EXCEPT !.pollingRef = FALSE, !.isPolling = FALSE, !.hasCleanup = FALSE,
                   !.loops = [l \in 1..MaxLoops |->
                                IF p.loops[l].pc = "none" THEN NoLoop
                                ELSE [p.loops[l] EXCEPT !.cleanedUp = TRUE]]]
    ELSE p

\* setLatestVideo(video): React drops the update of an unmounted component;
\* otherwise the new object is a new dependency of the effect
SetLatestVideo(p, video) ==
    IF p.mounted THEN [p EXCEPT !.latestVideo = video, !.effectPending = TRUE]
    ELSE p

FreeLoops(p) == {l \in 1..MaxLoops : p.loops[l].pc = "none"}

\* React runs the effect after a render in which isAuthenticated, poll or
\* latestVideo changed: the previous run's cleanup, then the body. poll()
\* runs up to its first await: the while condition holds and
\* receiveMessage is called.
PxEffect ==
    /\ px.mounted /\ px.effectPending
    /\ LET p == [Cleanup(px) EXCEPT !.effectPending = FALSE] IN
        IF ~p.isAuthenticated
        THEN px' = [p EXCEPT !.pollingRef = FALSE, !.isPolling = FALSE]
        ELSE /\ FreeLoops(p) # {}
             /\ (p.latestVideo = NoVideo) => (p.fetching < MaxFetches)
             /\ LET l == CHOOSE k \in FreeLoops(p) : \A j \in FreeLoops(p) : k <= j IN
                 px' = [p EXCEPT
                          !.fetching = IF p.latestVideo = NoVideo THEN @ + 1 ELSE @,
                          !.pollingRef = TRUE, !.isPolling = TRUE, !.hasCleanup = TRUE,
                          !.loops[l] = [pc |-> "receive", isAuthenticated |-> TRUE,
                                        i |-> 0, msg |-> 0, cleanedUp |-> FALSE]]
    /\ PxUnchanged

\* the AuthProvider's isAuthenticated changes (login completed, logout)
PxSetAuthenticated(a) ==
    /\ px.mounted
    /\ a # px.isAuthenticated
    /\ px' = [px EXCEPT !.isAuthenticated = a, !.effectPending = TRUE]
    /\ PxUnchanged

\* the component unmounts: React runs the effect's cleanup
PxUnmount ==
    /\ px.mounted
    /\ px' = [Cleanup(px) EXCEPT !.mounted = FALSE, !.effectPending = FALSE]
    /\ PxUnchanged

\* fetchInitialVideo: getMostRecentVideo returns (null or a video);
\* localStorage.setItem may throw
PxFetchReturns(video, throws) ==
    /\ px.fetching > 0
    /\ (video = NoVideo) => ~throws
    /\ LET p == [px EXCEPT !.fetching = @ - 1] IN
        px' = IF video = NoVideo THEN p
              ELSE LET q == SetLatestVideo(p, video) IN
                   IF throws THEN q ELSE [q EXCEPT !.localStorage = video]
    /\ PxUnchanged

\* poll: receiveMessage returns inside retryWithBackoff. A rejection is
\* followed, after a sleep, by the next call of receiveMessage (i + 1), or
\* after MAX_RETRIES calls by null and the backoff sleep. A response is
\* handled up to the next await: the sleep between polls, the call of
\* deleteMessage, or the backoff sleep of the catch block when
\* localStorage.setItem throws. The sleeps' lengths (computed from
\* consecutiveErrorCountRef) are not modelled: a sleep ends at some time.
PxReceiveReturns(l, resp, throws) ==
    /\ px.loops[l].pc = "receive"
    /\ px.polls < MaxPolls
    /\ throws => (resp \in SqsIds)
    /\ LET p == [px EXCEPT !.polls = @ + 1]
           lp == px.loops[l]
       IN
        IF resp = 0  \* receiveMessage rejects
        THEN px' = IF lp.i < MAX_RETRIES - 1
                   THEN [p EXCEPT !.loops[l].i = @ + 1]
                   ELSE [p EXCEPT !.loops[l].i = 0, !.loops[l].pc = "backoff"]
        ELSE IF resp = -1  \* no Messages in the response
        THEN /\ px' = [p EXCEPT !.loops[l].i = 0, !.loops[l].pc = "interval"]
        ELSE LET message == SqsMessage(resp)
                 notification == parseNotification(message.Body)
             IN
             IF message.hasBody /\ message.ReceiptHandle # "" /\ notification # NoVideo
             THEN LET q == [SetLatestVideo(p, notification) EXCEPT
                                !.setCalls = @ \cup {resp}] IN
                  px' = IF throws
                        THEN [q EXCEPT !.loops[l].i = 0, !.loops[l].pc = "backoff"]
                        ELSE [q EXCEPT !.localStorage = notification,
                                       !.persisted = @ \cup {resp},
                                       !.deleteCalls = @ \cup {resp},
                                       !.loops[l].i = 0, !.loops[l].msg = resp,
                                       !.loops[l].pc = "deleting"]
             ELSE /\ ~throws
                  /\ px' = [p EXCEPT !.loops[l].i = 0, !.loops[l].pc = "interval"]
    /\ PxUnchanged

\* poll: deleteMessage returns inside retryWithBackoff: done, or rejected
\* and called again after a sleep, at most MAX_RETRIES times; then the
\* sleep between polls
PxDeleteReturns(l, ok) ==
    /\ px.loops[l].pc = "deleting"
    /\ px' = IF ok \/ px.loops[l].i = MAX_RETRIES - 1
             THEN [px EXCEPT !.loops[l].i = 0, !.loops[l].msg = 0,
                             !.loops[l].pc = "interval"]
             ELSE [px EXCEPT !.loops[l].i = @ + 1]
    /\ PxUnchanged

\* poll: a sleep is over and the while condition is evaluated:
\* pollingRef.current && isAuthenticated (the closure's); the loop goes on
\* to call receiveMessage or ends
PxWake(l) ==
    /\ px.loops[l].pc \in {"interval", "backoff"}
    /\ px' = IF px.pollingRef /\ px.loops[l].isAuthenticated
             THEN [px EXCEPT !.loops[l].pc = "receive"]
             ELSE [px EXCEPT !.loops[l] = NoLoop]
    /\ PxUnchanged

PollNext ==
    \/ PxEffect
    \/ \E a \in BOOLEAN : PxSetAuthenticated(a)
    \/ PxUnmount
    \/ \E video \in {NoVideo, S3Video}, throws \in BOOLEAN : PxFetchReturns(video, throws)
    \/ \E l \in 1..MaxLoops, resp \in {-1, 0} \cup SqsIds, throws \in BOOLEAN :
            PxReceiveReturns(l, resp, throws)
    \/ \E l \in 1..MaxLoops, ok \in BOOLEAN : PxDeleteReturns(l, ok)
    \/ \E l \in 1..MaxLoops : PxWake(l)

PollSpec == PollInit /\ [][PollNext]_vars

(* ------------- RetrySpec: RetryWithBackoff on an arbitrary policy ------- *)

\* the policies explored: MaxRetries up to the bound, the initial delays and
\* ceilings used by the two call sites
RetryConfigs ==
    [MaxRetries : 0..MaxRetriesBound, InitialDelay : {500, 1000},
     MaxDelay : {2000, 8000}, OperationName : {"S3 upload clip1.mp4", "SNS publish"}]

\* fn's n-th call returns nil iff n = firstOk (firstOk = MaxRetries+2: it fails
\* on every call the executor can make)
FnSucceeds(x) == x.r.calls + 1 = x.firstOk

RetryInit ==
    /\ cancelled = FALSE
    /\ watchPc = "start"
    /\ watcherErrors = <<>>
    /\ started = 0
    /\ watchedDir = EmptyDir
    /\ failedDir = EmptyDir
    /\ remote = {}
    /\ topic = EmptyBag
    /\ phase = [t \in Tasks |-> "idle"]
    /\ file = [t \in Tasks |-> 0]
    /\ rt = [t \in Tasks |-> NewRetry]
    /\ tctx = [t \in Tasks |-> NoCtx]
    /\ res = [t \in Tasks |-> NoRes]
    /\ mainPc = "select"
    /\ events = <<>>
    /\ sg = SignIdle
    /\ cf = ConfigIdle
    /\ wx = WatchIdle
    /\ px = PollIdle
    /\ \E c \in RetryConfigs : \E k \in 1..(c.MaxRetries + 2) :
            rx = [RetryIdle EXCEPT !.cfg = c, !.firstOk = k, !.active = TRUE]

RxUnchanged ==
    UNCHANGED <<cancelled, watchPc, watcherErrors, started, watchedDir, failedDir, remote,
                topic, phase, file, rt, tctx, res, mainPc, events, sg, cf, wx, px>>

\* the caller's context is cancelled while the executor is at the top of an
\* iteration or in its backoff select
RxCancel ==
    /\ rx.active /\ ~rx.done
    /\ rx.r.st # "ret"
    /\ rx' = [rx EXCEPT !.done = TRUE, !.doneAt = rx.r.st, !.doneCalls = rx.r.calls]
    /\ RxUnchanged

RxAttempt ==
    /\ rx.active
    /\ rx.r.st = "attempt"
    /\ rx' = [rx EXCEPT !.r = RetryAttempt(rx.r, rx.cfg, rx.done, FnSucceeds(rx))]
    /\ RxUnchanged

RxSleepCancelled ==
    /\ rx.active
    /\ rx.r.st = "sleep"
    /\ rx.done
    /\ rx' = [rx EXCEPT !.r = RetrySleepCancelled(rx.r, rx.cfg)]
    /\ RxUnchanged

RxTimer ==
    /\ rx.active
    /\ rx.r.st = "sleep"
    /\ rx.r.remaining > 0
    /\ rx' = [rx EXCEPT !.r = RetryTimerFires(rx.r)]
    /\ RxUnchanged

RxWake ==
    /\ rx.active
    /\ rx.r.st = "sleep"
    /\ rx.r.remaining = 0
    /\ rx' = [rx EXCEPT !.r = RetryWake(rx.r)]
    /\ RxUnchanged

RetryNext == RxCancel \/ RxAttempt \/ RxSleepCancelled \/ RxTimer \/ RxWake

RetrySpec == RetryInit /\ [][RetryNext]_vars

(* ------- QuarantineSpec: sequences of quarantine insertions ------------ *)

\* sizes of the clips handed to moveToFailedDir: one byte, 60 MB, and one
\* byte less than the cap
QuarantineSizes == {1, 62914560, maxFailedUploadDirSize - 1}

\* Upload reaches "Upload verification failed" for clip f of size sz (the
\* transfer succeeded, verifyUpload returned its exhaustion error) and calls
\* u.moveToFailedDir(filePath); the calls follow one another in goroutine 1.
QInsert(t, f, sz) ==
    /\ t = 1
    /\ phase[t] \in {"idle", "done"}
    /\ watchedDir[f] = NoFile
    /\ watchedDir' = [watchedDir EXCEPT ![f] = sz]
    /\ file' = [file EXCEPT ![t] = f]
    /\ phase' = [phase EXCEPT ![t] = "q_measure"]
    /\ res' = [res EXCEPT ![t] = [NoRes EXCEPT !.xfer = "ok", !.verify = "exhausted"]]
    /\ remote' = remote \cup {S3Key(FilePath(f))}
    /\ UNCHANGED <<cancelled, watchPc, watcherErrors, started, failedDir, topic, rt, tctx, rx, mainPc, events, sg, cf, wx, px>>

QuarantineNext ==
    \/ \E t \in Tasks, f \in Files, sz \in QuarantineSizes : QInsert(t, f, sz)
    \/ \E t \in Tasks : QMeasure(t)
    \/ \E t \in Tasks : QClear(t)
    \/ \E t \in Tasks : QMove(t)

QuarantineSpec == Init /\ [][QuarantineNext]_vars

(* ---------------- SignSpec: SignURL called twice on one URL ------------ *)

\* names and values of the query parameters an input URL may carry: an
\* ordinary parameter and the three names SignURL sets itself; an ordinary
\* value and one with an invalid percent-escape
SignQueryNames == {"v"} \cup SignParams
SignQueryValues == {Plain(<<"old">>), Plain(<<"%zz">>)}
SignQueries ==
    UNION {[S -> SignQueryValues] : S \in SUBSET SignQueryNames}

\* the URLs handed to SignURL: one url.Parse rejects, and the clip URL with
\* each of the queries
SignInputs ==
    {[wellFormed |-> FALSE, base |-> "%", query |-> <<>>]}
    \cup {[wellFormed |-> TRUE, base |-> "https://d/videos/1.mp4", query |-> q] :
            q \in SignQueries}

\* issuing instants: two within one second, two within the next
SignInstants == [sec : {0, 1}, ms : {0, 400}]
Before(a, b) == a.sec < b.sec \/ (a.sec = b.sec /\ a.ms < b.ms)
\* the private keys a signer may hold
SignKeys == {"k1", "k2"}

SignInit ==
    /\ cancelled = FALSE
    /\ watchPc = "start"
    /\ watcherErrors = <<>>
    /\ started = 0
    /\ watchedDir = EmptyDir
    /\ failedDir = EmptyDir
    /\ remote = {}
    /\ topic = EmptyBag
    /\ phase = [t \in Tasks |-> "idle"]
    /\ file = [t \in Tasks |-> 0]
    /\ rt = [t \in Tasks |-> NewRetry]
    /\ tctx = [t \in Tasks |-> NoCtx]
    /\ res = [t \in Tasks |-> NoRes]
    /\ mainPc = "select"
    /\ events = <<>>
    /\ rx = RetryIdle
    /\ cf = ConfigIdle
    /\ wx = WatchIdle
    /\ px = PollIdle
    /\ \E u \in SignInputs, k \in SignKeys, ok \in BOOLEAN,
          a \in SignInstants, b \in SignInstants :
        /\ Before(a, b)
        /\ sg = [SignIdle EXCEPT !.url = u, !.key = k, !.signOk = ok,
                                 !.t1 = a, !.t2 = b, !.pc = "new"]

SgUnchanged ==
    UNCHANGED <<cancelled, watchPc, watcherErrors, started, watchedDir, failedDir, remote,
                topic, phase, file, rt, tctx, res, rx, mainPc, events, cf, wx, px>>

\* main: NewCloudFrontSigner; an error is fatal (log.Fatalf)
SgNew ==
    /\ sg.pc = "new"
    /\ \E outcome \in {"ok", "config", "ssm", "parse"} :
        LET n == NewCloudFrontSigner(sg.key, outcome)
        IN  sg' = [sg EXCEPT !.signer = n.signer, !.ssmReads = n.ssmReads,
                            !.pc = IF n.err = "none" THEN "first" ELSE "fatal"]
    /\ SgUnchanged

\* the first call, at instant t1
SgFirst ==
    /\ sg.pc = "first"
    /\ sg' = [sg EXCEPT !.r1 = SignURL(sg.url, sg.t1, sg.signer.privateKey,
                                       sg.signOk),
                        !.signer = SignerAfterSignURL(sg.signer),
                        !.ssmReads = SsmReadsAfterSignURL(sg.ssmReads),
                        !.pc = "second"]
    /\ SgUnchanged

\* the second call on the same URL, at the later instant t2
SgSecond ==
    /\ sg.pc = "second"
    /\ sg' = [sg EXCEPT !.r2 = SignURL(sg.url, sg.t2, sg.signer.privateKey,
                                       sg.signOk),
                        !.signer = SignerAfterSignURL(sg.signer),
                        !.ssmReads = SsmReadsAfterSignURL(sg.ssmReads),
                        !.pc = "done"]
    /\ SgUnchanged

SignNext == SgNew \/ SgFirst \/ SgSecond

SignSpec == SignInit /\ [][SignNext]_vars

(* ------------- ConfigSpec: main's LoadConfig on an environment --------- *)

\* what a variable may hold: nothing, or one of two values
EnvValues == {"", "a", "b"}

ConfigInit ==
    /\ cancelled = FALSE
    /\ watchPc = "start"
    /\ watcherErrors = <<>>
    /\ started = 0
    /\ watchedDir = EmptyDir
    /\ failedDir = EmptyDir
    /\ remote = {}
    /\ topic = EmptyBag
    /\ phase = [t \in Tasks |-> "idle"]
    /\ file = [t \in Tasks |-> 0]
    /\ rt = [t \in Tasks |-> NewRetry]
    /\ tctx = [t \in Tasks |-> NoCtx]
    /\ res = [t \in Tasks |-> NoRes]
    /\ mainPc = "select"
    /\ events = <<>>
    /\ rx = RetryIdle
    /\ sg = SignIdle
    /\ wx = WatchIdle
    /\ px = PollIdle
    /\ \E e \in [EnvNames -> EnvValues] :
        cf = [ConfigIdle EXCEPT !.env = e, !.pc = "start"]

CfUnchanged ==
    UNCHANGED <<cancelled, watchPc, watcherErrors, started, watchedDir, failedDir, remote,
                topic, phase, file, rt, tctx, res, rx, mainPc, events, sg, wx, px>>

\* main: cfg, err := config.LoadConfig(); log.Fatalf on an error
CfLoad ==
    /\ cf.pc = "start"
    /\ LET out == LoadConfig(cf.env) IN
        cf' = [cf EXCEPT !.out = out,
                         !.pc = IF out.err = "" THEN "loaded" ELSE "fatal"]
    /\ CfUnchanged

\* main goes on to build its components, the signer first
CfStartComponents ==
    /\ cf.pc = "loaded"
    /\ cf' = [cf EXCEPT !.pc = "components"]
    /\ CfUnchanged

\* main constructs its next component; an error is fatal (log.Fatalf exits
\* the process): pc "fatal_build", as "fatal" is LoadConfig's failure
CfBuild ==
    /\ cf.pc = "components"
    /\ Len(cf.booted) < Len(BootOrder)
    /\ \E ok \in BOOLEAN :
        cf' = IF ok
              THEN [cf EXCEPT !.booted = Append(@, BootOrder[Len(cf.booted) + 1])]
              ELSE [cf EXCEPT !.pc = "fatal_build"]
    /\ CfUnchanged

\* main: go func() { fileWatcher.Watch(ctx) }() once every component exists
CfWatch ==
    /\ cf.pc = "components"
    /\ Len(cf.booted) = Len(BootOrder)
    /\ cf' = [cf EXCEPT !.pc = "watching"]
    /\ CfUnchanged

ConfigNext == CfLoad \/ CfStartComponents \/ CfBuild \/ CfWatch

ConfigSpec == ConfigInit /\ [][ConfigNext]_vars

(* ------- StartupSpec: a run that finds files left by an earlier run ---- *)

\* what an earlier run may have left behind: any of the clips, not yet
\* processed, in the watched directory, and nothing or one clip of the cap's
\* size in the quarantine directory
LeftoverDirs ==
    {[f \in Files |-> IF f \in S THEN 2097152 ELSE NoFile] : S \in SUBSET Files}
LeftoverFailedDirs == {EmptyDir, [EmptyDir EXCEPT ![1] = maxFailedUploadDirSize]}

StartupInit ==
    /\ cancelled = FALSE
    /\ watchPc = "start"
    /\ watcherErrors = <<>>
    /\ started = 0
    /\ watchedDir \in LeftoverDirs
    /\ failedDir \in LeftoverFailedDirs
    /\ remote = {}
    /\ topic = EmptyBag
    /\ phase = [t \in Tasks |-> "idle"]
    /\ file = [t \in Tasks |-> 0]
    /\ rt = [t \in Tasks |-> NewRetry]
    /\ tctx = [t \in Tasks |-> NoCtx]
    /\ res = [t \in Tasks |-> NoRes]
    /\ mainPc = "select"
    /\ events = <<>>
    /\ sg = SignIdle
    /\ cf = ConfigIdle
    /\ wx = WatchIdle
    /\ px = PollIdle
    /\ rx = RetryIdle

\* the detector writes at most one clip during a run of StartupSpec
StartupDetectorWrites(f, sz) ==
    /\ started + Len(events) = 0
    /\ DetectorWrites(f, sz)

\* a step of the processVideo goroutine t
TaskStep(t) ==
    \/ Settle(t)
    \/ TransferAttempt(t)
    \/ VerifyAttempt(t)
    \/ PublishAttempt(t)
    \/ BackoffCancelled(t)
    \/ BackoffTimer(t)
    \/ BackoffWake(t)
    \/ QMeasure(t)
    \/ QClear(t)
    \/ QMove(t)
    \/ Sign(t)
    \/ Remove(t)

StartupNext ==
    \/ WatchStart
    \/ \E step \in {"MkdirAll", "Add"} : WatchStartFails(step)
    \/ MainWatcherError
    \/ Cancel
    \/ MainReturns
    \/ MainExit
    \/ WatchShutdown
    \/ WatchChannelClosed
    \/ \E f \in Files, sz \in FileSizes : StartupDetectorWrites(f, sz)
    \/ WatchDispatch
    \/ \E t \in Tasks : TaskStep(t)

StartupSpec == StartupInit /\ [][StartupNext]_vars

\* The Go scheduler runs every goroutine that can run: main, the goroutine
\* in Watch and each processVideo goroutine take their next step once it is
\* possible. Nothing is assumed of the detector or of termination signals.
StartupFairSpec ==
    /\ StartupSpec
    /\ WF_vars(WatchStart \/ \E step \in {"MkdirAll", "Add"} : WatchStartFails(step))
    /\ WF_vars(WatchDispatch)
    /\ WF_vars(WatchShutdown)
    /\ WF_vars(MainWatcherError)
    /\ WF_vars(WatchChannelClosed)
    /\ WF_vars(MainReturns)
    /\ WF_vars(MainExit)
    /\ \A t \in Tasks : WF_vars(TaskStep(t))

(* ------------------------------ claims --------------------------------- *)

QuarantinePhases == {"q_measure", "q_clear", "q_move"}
CancelledKinds == {"cancelled", "cancelled_backoff"}

\* C1: processVideo reaches os.Remove, and so deletes the local clip, only
\* in a task whose Upload returned success: its transfer loop returned nil,
\* its HeadObject probe of videos/<filename> returned nil, and the object is
\* in the bucket.
C1_DeleteOnlyAfterVerified ==
    \A t \in Tasks :
        (phase[t] = "remove" \/ res[t].rm # "none")
            => /\ res[t].upload = "ok"
               /\ res[t].xfer = "ok"
               /\ res[t].verify = "ok"
               /\ S3Key(FilePath(file[t])) \in remote

C1_Witness ==
    \E t \in Tasks : res[t].rm = "ok" /\ res[t].verify = "ok"

\* C2: a task whose Upload returned success goes on to the cleanup step
\* (os.Remove) once Publish has returned, whatever Publish returned: it
\* never finishes without having run the cleanup.
C2_CleanupDespitePublishError ==
    \A t \in Tasks :
        /\ (res[t].upload = "ok" /\ res[t].pub # "none")
                => phase[t] \in {"remove", "done"}
        /\ (res[t].upload = "ok" /\ phase[t] = "done") => res[t].rm # "none"

C2_Witness ==
    \E t, u \in Tasks :
        /\ res[t].pub \in CancelledKinds /\ res[t].rm = "ok"
        /\ res[u].pub = "sign_err" /\ res[u].rm = "ok"

\* C3 as stated: whenever Upload returns after a successful transfer and an
\* exhausted verification, the clip is in the quarantine directory and no
\* longer in the watched directory.
C3_AlwaysQuarantined ==
    [][\A t \in Tasks :
        (/\ res[t].upload = "none" /\ res'[t].upload = "err"
         /\ res'[t].xfer = "ok" /\ res'[t].verify = "exhausted")
        => (failedDir'[file[t]] # NoFile /\ watchedDir'[file[t]] = NoFile)]_vars

\* C3 amended: when Upload returns after a successful transfer and an
\* exhausted verification, either moveToFailedDir succeeded and the clip is
\* in the quarantine directory and no longer in the watched directory, or it
\* failed and both directories are as they were; and no step of Upload's
\* verification-failure path takes the clip out of the watched directory
\* other than by moving it into the quarantine directory.
C3_QuarantinedUnlessMoveFails ==
    [][\A t \in Tasks :
        /\ (/\ res[t].upload = "none" /\ res'[t].upload = "err"
            /\ res'[t].xfer = "ok" /\ res'[t].verify = "exhausted")
           => IF res'[t].move = "ok"
              THEN /\ failedDir'[file[t]] = watchedDir[file[t]]
                   /\ failedDir'[file[t]] # NoFile
                   /\ watchedDir'[file[t]] = NoFile
              ELSE watchedDir' = watchedDir /\ failedDir' = failedDir
        /\ (/\ phase[t] \in QuarantinePhases \cup {"verify"}
            /\ phase'[t] # phase[t]
            /\ watchedDir[file[t]] # NoFile
            /\ watchedDir'[file[t]] = NoFile)
           => failedDir'[file[t]] = watchedDir[file[t]]]_vars

C3_Witness ==
    \E t \in Tasks :
        /\ res[t].verify = "exhausted" /\ res[t].move = "ok"
        /\ res[t].upload = "err"
        /\ failedDir[file[t]] # NoFile /\ watchedDir[file[t]] = NoFile

\* C4: a task whose Upload returned an error has returned from processVideo
\* without calling Publish (no SignURL, no SNS publish) and without the
\* cleanup step.
C4_NoPublishAfterUploadError ==
    \A t \in Tasks :
        res[t].upload = "err"
            => /\ phase[t] = "done"
               /\ res[t].sign = "none"
               /\ res[t].pub = "none"
               /\ res[t].rm = "none"

C4_Witness ==
    \E t, u \in Tasks :
        /\ res[t].upload = "err" /\ res[t].verify = "exhausted"
        /\ res[u].upload = "err" /\ res[u].xfer = "exhausted"

\* C5: without cancellation, a RetryWithBackoff call on a policy with
\* MaxRetries = N whose operation first succeeds on call k <= N+1 returns
\* success after exactly k calls; if the operation fails on all N+1 calls it
\* returns the exhaustion error after exactly N+1 calls, citing N+1.
C5_CallCounts ==
    (rx.active /\ rx.r.st = "ret" /\ ~rx.done)
        => IF rx.firstOk <= rx.cfg.MaxRetries + 1
           THEN rx.r.res = "ok" /\ rx.r.calls = rx.firstOk
           ELSE /\ rx.r.res = "exhausted"
                /\ rx.r.calls = rx.cfg.MaxRetries + 1
                /\ rx.r.cited = rx.cfg.MaxRetries + 1

C5_Witness ==
    /\ rx.r.st = "ret" /\ ~rx.done
    /\ rx.cfg.MaxRetries = 2
    /\ rx.r.res = "exhausted" /\ rx.r.calls = 3 /\ rx.r.cited = 3

\* C6: once the context is done while RetryWithBackoff is at the top of an
\* iteration or in its backoff select, the operation is not called again and
\* the call returns a cancelled error, never the exhaustion error and never
\* success.
C6_CancelledStopsRetrying ==
    (rx.active /\ rx.done)
        => /\ rx.r.calls = rx.doneCalls
           /\ rx.r.res \notin {"ok", "exhausted"}
           /\ rx.r.st = "ret" => rx.r.res \in CancelledKinds

C6_Witness ==
    /\ rx.done /\ rx.doneAt = "sleep"
    /\ rx.r.st = "ret" /\ rx.r.res = "cancelled_backoff"
    /\ rx.r.calls >= 2

\* C7: when the context is cancelled and a task is in the backoff select of
\* the transfer retry loop with its delay not yet over, the task's next step
\* is Upload returning the "cancelled during backoff" error: no further
\* transfer attempt is made and nothing is stored.
C7_CancelMidBackoff ==
    [][\A t \in Tasks :
        (/\ cancelled
         /\ phase[t] = "transfer" /\ rt[t].st = "sleep" /\ rt[t].remaining > 0
         /\ <<phase[t], rt[t].st>> # <<phase'[t], rt'[t].st>>)
        => (/\ phase'[t] = "done"
            /\ res'[t].upload = "err"
            /\ res'[t].xfer = "cancelled_backoff"
            /\ res'[t].early
            /\ remote' = remote)]_vars

C7_Witness ==
    \E t \in Tasks :
        /\ cancelled
        /\ phase[t] = "done" /\ res[t].upload = "err"
        /\ res[t].xfer = "cancelled_backoff" /\ res[t].early

\* C8 as stated: the files in the quarantine directory never total more
\* than maxFailedUploadDirSize bytes.
C8_QuarantineWithinCap ==
    getDirSize(failedDir) <= maxFailedUploadDirSize

\* C9 as stated: when moveToFailedDir moves a clip in and the size it
\* measured plus the clip's size is at or above the cap, the quarantine
\* directory holds only that clip afterwards.
C9_EvictsWhenNewFileReachesCap ==
    [][\A t \in Tasks :
        (/\ phase[t] = "q_move" /\ res'[t].move = "ok"
         /\ res[t].dirSize # NoFile
         /\ res[t].dirSize + watchedDir[file[t]] >= maxFailedUploadDirSize)
        => DirFiles(failedDir') = {file[t]}]_vars

\* C10: within one processVideo call the steps come in the order transfer,
\* verification probe, SignURL, SNS publish, os.Remove: a step is reached only
\* after the one before it returned success, except that os.Remove follows
\* Publish whatever Publish returned.
C10_StepsInOrder ==
    \A t \in Tasks :
        /\ (phase[t] = "verify" \/ res[t].verify # "none") => res[t].xfer = "ok"
        /\ phase[t] \in QuarantinePhases
                => res[t].xfer = "ok" /\ res[t].verify \notin {"none", "ok"}
        /\ (phase[t] = "sign" \/ res[t].sign # "none")
                => res[t].verify = "ok" /\ res[t].upload = "ok"
        /\ (phase[t] = "publish" \/ res[t].pub \notin {"none", "sign_err"})
                => res[t].sign = "ok"
        /\ (phase[t] = "remove" \/ res[t].rm # "none")
                => res[t].pub # "none" /\ res[t].upload = "ok"
        /\ res[t].rm # "none" => phase[t] = "done"

\* a clip dispatched later has gone through all of its steps while the clip
\* dispatched before it is still being transferred
C10_Witness ==
    \E t, u \in Tasks :
        /\ t < u
        /\ phase[t] = "transfer"
        /\ phase[u] = "done" /\ res[u].pub = "ok" /\ res[u].rm = "ok"

\* C11: whenever Watch is running and a Create event is waiting in the
\* events channel, Watch can receive it and start its processVideo goroutine,
\* whatever the goroutines started earlier are doing (settle delay, a network
\* call, a backoff sleep): the event loop never waits for a per-clip task.
C11_DispatchNeverWaits ==
    (Running /\ watching /\ events # <<>>) => ENABLED WatchDispatch

\* the clip dispatched second is being processed (or is through) while the
\* clip dispatched first is still in its settle delay
C11_Witness ==
    /\ phase[1] = "settle"
    /\ phase[2] \in {"transfer", "verify", "publish", "done"}

\* C12 as stated: main has returned (the process has exited) only when no
\* processVideo goroutine started by Watch is still in flight.
C12_ExitWaitsForTasks ==
    mainPc = "exited" => InFlight = {}

\* C13 as stated: once cancel() has been called, Watch starts no further
\* processVideo goroutine: a Create event still in the events channel is
\* never handed to processVideo.
C13_NoDispatchAfterCancel ==
    [][cancelled => started' = started]_vars

\* the two calls of SignSpec that have returned a signed URL, each as
\* <<issuing instant, result>>
SignedCalls ==
    {c \in {<<sg.t1, sg.r1>>, <<sg.t2, sg.r2>>} : c[2].err = "none"}

\* C14: for every successful SignURL(u) issued at instant t, Expires is the
\* decimal form of Unix(t) + 30 days; the Signature is over the policy whose
\* resource is u and whose expiry is the emitted Expires; it verifies against
\* that policy under the signer's key, and does not verify against a policy
\* with another resource or another expiry, nor under another key.
C14_SignatureBindsUrlAndExpiry ==
    \A c \in SignedCalls :
        LET q == c[2].url.query
            exp == Unix(c[1]) + urlExpirationDuration
            sig == q["Signature"]
        IN  /\ q["Expires"] = Plain(FormatInt(exp))
            /\ sig.over.Resource = sg.url
            /\ sig.over.EpochTime = q["Expires"].plain
            /\ Verifies(sg.key, Policy(sg.url, exp), sig)
            /\ \A u \in SignInputs \ {sg.url} :
                    ~Verifies(sg.key, Policy(u, exp), sig)
            /\ \A e \in {exp - 1, exp + 1, exp + 10} :
                    ~Verifies(sg.key, Policy(sg.url, e), sig)
            /\ \A k \in SignKeys \ {sg.key} :
                    ~Verifies(k, Policy(sg.url, exp), sig)

C14_Witness ==
    /\ sg.pc = "done"
    /\ sg.r1.err = "none" /\ sg.r2.err = "none"
    /\ sg.t1.ms = 400 /\ sg.t2.sec = 1
    /\ sg.r2.url.query["Expires"].plain = <<"2", "5", "9", "2", "0", "0", "1">>

\* C15 as stated: the result carries every query parameter of the input with
\* its original value, whatever its name, and the three parameters Expires,
\* Signature and Key-Pair-Id.
C15_AllParamsPreserved ==
    \A c \in SignedCalls :
        LET q == c[2].url.query IN
        /\ SignParams \subseteq DOMAIN q
        /\ \A k \in DOMAIN sg.url.query :
                k \in DOMAIN q /\ q[k] = sg.url.query[k]

\* C15 amended: the result's parameters are the well-formed pairs of the
\* input plus Expires, Signature and Key-Pair-Id; a well-formed input
\* parameter with another name keeps its value; the three carry the values
\* SignURL computed, replacing whatever the input had under those names; the
\* rest of the URL is unchanged.
C15_OtherParamsPreserved ==
    \A c \in SignedCalls :
        LET q == c[2].url.query
            in == sg.url.query
            exp == Unix(c[1]) + urlExpirationDuration
        IN  /\ DOMAIN q = {k \in DOMAIN in : WellEscaped(in[k])} \cup SignParams
            /\ \A k \in DOMAIN in \ SignParams :
                    WellEscaped(in[k]) => q[k] = in[k]
            /\ q["Expires"] = Plain(FormatInt(exp))
            /\ q["Signature"] = signPolicy(sg.key, Policy(sg.url, exp))
            /\ q["Key-Pair-Id"] = Plain(<<cloudFrontKeyPairID>>)
            /\ c[2].url.base = sg.url.base

\* the input has an ordinary parameter, one named Signature and one named
\* Expires
C15_Witness ==
    /\ sg.pc = "done" /\ sg.r1.err = "none"
    /\ {"v", "Signature", "Expires"} \subseteq DOMAIN sg.url.query
    /\ sg.url.query["v"] = Plain(<<"old">>)
    /\ sg.url.query["Expires"] = Plain(<<"old">>)
    /\ sg.r1.url.query["v"] = Plain(<<"old">>)

\* the (Expires, Signature) pair of a signed URL
SignedPair(r) == <<r.url.query["Expires"], r.url.query["Signature"]>>

\* C16 as stated: two successful SignURL calls on the same URL at two
\* different instants give different (Expires, Signature) pairs.
C16_DifferentInstantsDifferentPairs ==
    (sg.pc = "done" /\ sg.r1.err = "none" /\ sg.r2.err = "none")
        => SignedPair(sg.r1) # SignedPair(sg.r2)

\* C16 amended: two successful SignURL calls on the same URL give different
\* (Expires, Signature) pairs exactly when their instants fall in different
\* epoch seconds; the second call's Expires is that of its own instant.
C16_PairsDifferAcrossSeconds ==
    (sg.pc = "done" /\ sg.r1.err = "none" /\ sg.r2.err = "none")
        => /\ (SignedPair(sg.r1) # SignedPair(sg.r2)) <=> (Unix(sg.t1) # Unix(sg.t2))
           /\ (Unix(sg.t1) # Unix(sg.t2)) =>
                /\ sg.r1.url.query["Expires"] # sg.r2.url.query["Expires"]
                /\ sg.r1.url.query["Signature"] # sg.r2.url.query["Signature"]
           /\ sg.r2.url.query["Expires"].plain
                = FormatInt(Unix(sg.t2) + urlExpirationDuration)

C16_Witness ==
    /\ sg.pc = "done" /\ sg.r1.err = "none" /\ sg.r2.err = "none"
    /\ sg.t1.sec = 0 /\ sg.t2.sec = 1
    /\ SignedPair(sg.r1) # SignedPair(sg.r2)

\* the variables without which LoadConfig returns an error
RequiredEnv == {"S3_BUCKET", "SNS_TOPIC_ARN", "CLOUDFRONT_DOMAIN"}

\* C20 as stated: LoadConfig returns a configuration, and main goes on to
\* start its components, only when bucket, topic, watched directory, serving
\* domain and region are all supplied; it fails when any one is missing.
C20_AllFiveRequired ==
    (cf.pc \in {"loaded", "fatal", "components"})
        => ((cf.out.err = "") <=> (\A n \in EnvNames : cf.env[n] # ""))

\* C20 amended: LoadConfig fails, and main stops before starting any
\* component, exactly when S3_BUCKET, SNS_TOPIC_ARN or CLOUDFRONT_DOMAIN is
\* missing or empty; a missing AWS_REGION or VIDEO_DIR is replaced by its
\* default in the configuration returned.
C20_ThreeRequiredTwoDefaulted ==
    (cf.pc \in {"loaded", "fatal", "components"})
        => /\ (cf.out.err = "") <=> (\A n \in RequiredEnv : cf.env[n] # "")
           /\ (cf.out.err # "") <=> (cf.pc = "fatal")
           /\ (cf.out.err = "") =>
                /\ cf.out.cfg.S3Bucket = cf.env["S3_BUCKET"]
                /\ cf.out.cfg.SNSTopicARN = cf.env["SNS_TOPIC_ARN"]
                /\ cf.out.cfg.CloudFrontDomain = cf.env["CLOUDFRONT_DOMAIN"]
                /\ cf.out.cfg.AWSRegion =
                        IF cf.env["AWS_REGION"] = "" THEN "ap-southeast-2"
                        ELSE cf.env["AWS_REGION"]
                /\ cf.out.cfg.VideoDir =
                        IF cf.env["VIDEO_DIR"] = "" THEN "/tmp/videos"
                        ELSE cf.env["VIDEO_DIR"]

\* main is building its components on a configuration loaded from an
\* environment with neither region nor watched directory
C20_Witness ==
    /\ cf.pc = "components"
    /\ cf.env["AWS_REGION"] = "" /\ cf.env["VIDEO_DIR"] = ""
    /\ cf.out.cfg.AWSRegion = "ap-southeast-2"
    /\ cf.out.cfg.VideoDir = "/tmp/videos"

\* the URL Publish builds for a key, as url.Parse reads it when it accepts it
UnsignedURL(s3Key) == PublicURL(CloudFrontDomain, s3Key, TRUE)

\* C17: a task whose SignURL failed has returned from Publish with an error
\* and no notification; the notifications on the topic are exactly those of
\* the tasks whose publish succeeded after a successful SignURL, and each
\* carries in cloudfront_url a URL with Expires, Signature and Key-Pair-Id
\* whose signature verifies for the key's public URL, never the unsigned URL.
C17_OnlySignedUrlsPublished ==
    /\ \A t \in Tasks :
        /\ res[t].sign = "err" =>
                res[t].pub = "sign_err" /\ res[t].msg = NoNotification
        /\ (phase[t] = "publish" \/ res[t].pub \notin {"none", "sign_err"})
                => res[t].sign = "ok"
    /\ BagCardinality(topic) = Cardinality({t \in Tasks : res[t].pub = "ok"})
    /\ \A m \in BagToSet(topic) :
        /\ m.cloudfront_url.wellFormed
        /\ m.cloudfront_url # UnsignedURL(m.s3_key)
        /\ SignParams \subseteq DOMAIN m.cloudfront_url.query
        /\ \E now \in PublishInstants :
                Verifies(SignerKey,
                         Policy(UnsignedURL(m.s3_key),
                                Unix(now) + urlExpirationDuration),
                         m.cloudfront_url.query["Signature"])

\* one task's SignURL failed and it has finished; another's notification is
\* on the topic
C17_Witness ==
    \E t, u \in Tasks :
        /\ res[t].sign = "err" /\ phase[t] = "done"
        /\ res[u].pub = "ok"
        /\ BagCardinality(topic) = 1

\* C18 as stated: the topic never holds two notifications for the same clip
\* (the same s3_key), whatever Create events arrive.
C18_OneNotificationPerClip ==
    \A m1, m2 \in BagToSet(topic) :
        /\ topic[m1] = 1
        /\ m1.s3_key = m2.s3_key => m1 = m2

\* C19: a successful Upload returns the key "videos/" + basename and that
\* object is in the bucket; any other Upload returns the empty key; every
\* object in the bucket is under such a key; every notification on the topic
\* is that of a task whose publish succeeded, with s3_key "videos/" +
\* basename, event_type "human_detected" and cloudfront_url the signed form of
\* "https://<domain>/videos/" + basename.
C19_KeysAndNotificationFields ==
    /\ \A t \in Tasks :
        /\ res[t].upload = "ok" =>
                /\ res[t].key = "videos/" \o FileName(file[t])
                /\ res[t].key \in remote
        /\ res[t].upload # "ok" => res[t].key = ""
        /\ res[t].pub = "ok" => BagIn(res[t].msg, topic)
    /\ \A k \in remote :
        \E t \in 1..started : k = "videos/" \o FileName(file[t])
    /\ \A m \in BagToSet(topic) :
        \E t \in Tasks :
            /\ res[t].pub = "ok" /\ res[t].msg = m
            /\ m.s3_key = "videos/" \o FileName(file[t])
            /\ m.event_type = "human_detected"
            /\ \E now \in PublishInstants :
                m.cloudfront_url =
                    SignURL([wellFormed |-> TRUE,
                             base |-> "https://" \o CloudFrontDomain
                                        \o "/videos/" \o FileName(file[t]),
                             query |-> <<>>],
                            now, SignerKey, TRUE).url

C19_Witness ==
    \E t, u \in Tasks :
        /\ res[t].pub = "ok" /\ res[t].key = "videos/clip2.mp4"
        /\ res[t].msg.s3_key = "videos/clip2.mp4"
        /\ BagIn(res[t].msg, topic)
        /\ res[u].upload = "err" /\ res[u].key = ""

\* min(InitialDelay * 2^a, MaxDelay)
C25_Expected(cfg, a) ==
    LET d == cfg.InitialDelay * (2 ^ a)
    IN  IF d < cfg.MaxDelay THEN d ELSE cfg.MaxDelay

\* C25: in a RetryWithBackoff call the delay entered after the failed
\* attempt with index a (a = 0 first) is min(InitialDelay * 2^a, MaxDelay):
\* the delays waited out so far are those of a = 0, 1, ... in order, one per
\* attempt made after the first; a delay is entered only with a < MaxRetries,
\* so none follows the final attempt; and a call on the default policy that
\* ends in exhaustion has waited exactly 1 s, 2 s, 4 s, 8 s.
C25_DelaySequence ==
    rx.active =>
        /\ Len(rx.r.slept) = rx.r.attempt
        /\ Len(rx.r.slept) <= rx.cfg.MaxRetries
        /\ \A i \in 1..Len(rx.r.slept) :
                rx.r.slept[i] = C25_Expected(rx.cfg, i - 1)
        /\ rx.r.st = "sleep"
            => /\ rx.r.attempt < rx.cfg.MaxRetries
               /\ rx.r.delay = C25_Expected(rx.cfg, rx.r.attempt)
        /\ (rx.r.res = "exhausted" /\ rx.cfg.MaxRetries = 4
                /\ rx.cfg.InitialDelay = 1000 /\ rx.cfg.MaxDelay = 8000)
            => rx.r.slept = <<1000, 2000, 4000, 8000>>

\* an exhausted call on the default policy, and one whose delays reached
\* the ceiling, are both explored
C25_Witness ==
    /\ rx.active /\ rx.r.st = "ret" /\ rx.r.res = "exhausted"
    /\ \/ /\ rx.cfg = DefaultRetryConfig("SNS publish")
          /\ rx.r.slept = <<1000, 2000, 4000, 8000>>
       \/ /\ rx.cfg.MaxRetries = 4 /\ rx.cfg.InitialDelay = 500
          /\ rx.cfg.MaxDelay = 2000
          /\ rx.r.slept = <<500, 1000, 2000, 2000>>

\* C26 as stated: a RetryWithBackoff call on a policy with MaxRetries = M
\* never invokes the operation more than M times.
C26_AtMostMaxRetriesCalls ==
    rx.active => rx.r.calls <= rx.cfg.MaxRetries

\* C26 amended: a RetryWithBackoff call on a policy with MaxRetries = M never
\* invokes the operation more than M + 1 times (one first attempt and up to
\* M retries).
C26_AtMostMaxRetriesPlusOneCalls ==
    rx.active => rx.r.calls <= rx.cfg.MaxRetries + 1

\* the operation has been invoked M + 1 times, with M > 0
C26_Witness ==
    /\ rx.active /\ rx.cfg.MaxRetries = 4
    /\ rx.r.calls = rx.cfg.MaxRetries + 1

\* C27: when RetryWithBackoff returns the exhaustion error, the error it
\* wraps is that of the most recent invocation of the operation, its text
\* starts with the policy's OperationName, and the attempt count in it is
\* the number of invocations made in the call.
C27_ExhaustionError ==
    (rx.active /\ rx.r.st = "ret" /\ rx.r.res = "exhausted")
        => /\ rx.r.lastErr = rx.r.calls
           /\ rx.r.label = rx.cfg.OperationName
           /\ rx.r.cited = rx.r.calls

\* exhaustion after several failed invocations
C27_Witness ==
    /\ rx.active /\ rx.r.st = "ret" /\ rx.r.res = "exhausted"
    /\ rx.r.calls = 3 /\ rx.r.lastErr = 3 /\ rx.r.cited = 3
    /\ rx.r.label = "S3 upload clip1.mp4"

\* C28 as stated: moveToFailedDir evicts exactly when the total size of the
\* quarantine directory before the insertion is at or above the cap; an
\* eviction leaves no file in the directory before the new file is moved
\* in; and an insertion without eviction leaves every file that was in the
\* directory in it.
C28_EvictsIffAtCapAndEvictsAll ==
    [][\A t \in Tasks :
        /\ (phase[t] = "q_measure" /\ phase'[t] \in {"q_clear", "q_move"})
            => (phase'[t] = "q_clear"
                    <=> getDirSize(failedDir) >= maxFailedUploadDirSize)
        /\ (phase[t] = "q_clear" /\ phase'[t] = "q_move")
            => DirFiles(failedDir') = {}
        /\ (phase[t] = "q_move" /\ res'[t].move = "ok"
                /\ res[t].dirSize < maxFailedUploadDirSize)
            => DirFiles(failedDir) \subseteq DirFiles(failedDir')]_vars

\* C28 amended: moveToFailedDir evicts exactly when getDirSize returned a
\* size and that size, taken before the insertion, is at or above the cap
\* (no eviction when getDirSize failed); an eviction removes the files whose
\* os.Remove succeeds and leaves the others as they were, adds none, and is
\* followed by the move unless the directory could not be listed, in which
\* case nothing is removed or moved; an insertion without eviction leaves
\* every other file of the directory as it was, the new clip taking the
\* place of a quarantined file of the same name.
C28_EvictsIffMeasuredAtCap ==
    [][\A t \in Tasks :
        /\ (phase[t] = "q_measure" /\ phase'[t] \in {"q_clear", "q_move"})
            => /\ res'[t].dirSize \in {NoFile, getDirSize(failedDir)}
               /\ phase'[t] = "q_clear"
                    <=> /\ res'[t].dirSize # NoFile
                        /\ res'[t].dirSize >= maxFailedUploadDirSize
        /\ (phase[t] = "q_clear" /\ phase'[t] = "q_move")
            => /\ \A f \in Files : failedDir'[f] \in {NoFile, failedDir[f]}
               /\ watchedDir' = watchedDir
        /\ (phase[t] = "q_clear" /\ phase'[t] \notin {"q_clear", "q_move"})
            => /\ res'[t].move = "err"
               /\ failedDir' = failedDir /\ watchedDir' = watchedDir
        /\ (phase[t] = "q_move" /\ res'[t].move = "ok")
            => /\ failedDir'[file[t]] = watchedDir[file[t]]
               /\ \A f \in Files \ {file[t]} : failedDir'[f] = failedDir[f]
               /\ res[t].dirSize < maxFailedUploadDirSize
                    => DirFiles(failedDir) \subseteq DirFiles(failedDir')]_vars

\* an insertion that measured the directory exactly at the cap with two
\* clips in it, evicted both and moved its clip in
C28_Witness ==
    \E t \in Tasks :
        /\ res[t].move = "ok"
        /\ res[t].dirSize = maxFailedUploadDirSize
        /\ DirFiles(failedDir) = {file[t]}
        /\ failedDir[file[t]] = 62914560

\* C29: while moveToFailedDir is evicting, the failure of os.Remove on any
\* one quarantined file g is an outcome after which all the other files of
\* the directory are gone, g is as it was, and moveToFailedDir is at its
\* os.Rename with no error recorded; and every eviction that could list the
\* directory, whichever removals failed, goes on to the os.Rename without an
\* error and without having touched the clip to be moved.
C29_EvictionSurvivesRemoveFailure ==
    /\ \A t \in Tasks :
        phase[t] = "q_clear" =>
            \A g \in DirFiles(failedDir) :
                ENABLED (/\ QClear(t)
                         /\ failedDir' = [f \in Files |->
                                IF f = g THEN failedDir[f] ELSE NoFile]
                         /\ phase'[t] = "q_move"
                         /\ res'[t].move = "none")
    /\ \A t \in Tasks :
        (phase[t] = "q_move" /\ res[t].dirSize >= maxFailedUploadDirSize)
            => /\ res[t].move = "none"
               /\ watchedDir[file[t]] # NoFile
               /\ ENABLED (QMove(t) /\ res'[t].move = "ok")

\* an eviction in which the removal of one of the two quarantined clips
\* failed: the other is gone and moveToFailedDir is at its os.Rename
C29_Witness ==
    \E t \in Tasks :
        /\ phase[t] = "q_move"
        /\ res[t].dirSize >= maxFailedUploadDirSize
        /\ Cardinality(DirFiles(failedDir)) = 1
        /\ getDirSize(failedDir) < res[t].dirSize

\* C30 as stated: the moveToFailedDir calls of different clips never
\* overlap: while one task is between its size measurement and its
\* os.Rename, no other task is, and no insertion moves a clip into a
\* directory that has changed since it was measured.
C30_InsertionsSerialized ==
    /\ \A t, u \in Tasks :
        (t # u /\ phase[t] \in {"q_clear", "q_move"})
            => phase[u] \notin {"q_clear", "q_move"}
    /\ \A t \in Tasks :
        (phase[t] = "q_move" /\ res[t].dirSize # NoFile
            /\ res[t].dirSize < maxFailedUploadDirSize)
            => getDirSize(failedDir) = res[t].dirSize

\* C23 as stated: once the context is cancelled, a task waiting in its
\* settle delay, or in a backoff sleep whose delay is not over, leaves the
\* wait by returning: from the settle delay processVideo returns without
\* calling Upload, from a backoff sleep the retry loop returns its
\* cancellation error without another attempt; nothing is uploaded.
C23_EveryWaitHonorsCancel ==
    [][\A t \in Tasks :
        /\ (cancelled /\ phase[t] = "settle" /\ phase'[t] # "settle")
            => (phase'[t] = "done" /\ remote' = remote)
        /\ (/\ cancelled
            /\ phase[t] \in RetryPhases /\ rt[t].st = "sleep" /\ rt[t].remaining > 0
            /\ <<phase[t], rt[t].st>> # <<phase'[t], rt'[t].st>>)
            => (/\ phase'[t] \in {"done", "q_measure", "remove"}
                /\ res'[t].early
                /\ remote' = remote)]_vars

\* C24 as stated: when a processVideo call returns, its clip is either
\* cleaned (Upload succeeded and the cleanup step ran) or quarantined (in the
\* quarantine directory and no longer in the watched directory); in
\* particular after an Upload error the clip is in the quarantine directory,
\* and no call returns having left the clip untouched in the watched
\* directory.
C24_CleanedOrQuarantined ==
    [][\A t \in Tasks :
        (phase[t] # "done" /\ phase'[t] = "done")
        => /\ \/ res'[t].upload = "ok" /\ res'[t].rm # "none"
              \/ /\ res'[t].upload = "err"
                 /\ failedDir'[file[t]] # NoFile
                 /\ watchedDir'[file[t]] = NoFile
           /\ ~(/\ watchedDir'[file[t]] # NoFile
                /\ res'[t].move = "none" /\ res'[t].rm = "none")]_vars

\* clip f has been handed to a processVideo goroutine
Dispatched(f) == \E t \in 1..started : file[t] = f

\* C21 as stated: every clip that is in the watched directory when the
\* process starts is eventually handed to processVideo, provided the run is
\* not shut down (no cancellation, and Watch could subscribe).
C21_LeftoversEventuallyDispatched ==
    \A f \in Files :
        watchedDir[f] # NoFile
            => (<>Dispatched(f) \/ <>(cancelled \/ watchPc = "failed"))

\* C22: if MkdirAll or watcher.Add fails in Watch, the error is put on
\* watcherErrors; it stays there until main's select takes it, and taking it
\* is what calls cancel() (unless a termination signal got there first); in
\* such a run no Create event is ever queued and no processVideo goroutine
\* is ever started; and the run always goes on to cancel() and to main's
\* return.
C22_SubscriptionFailureShutsDown ==
    /\ [](watchPc = "failed"
            => /\ started = 0 /\ events = <<>>
               /\ \A t \in Tasks : phase[t] = "idle"
               /\ watcherErrors # <<>> \/ cancelled)
    /\ [][(watcherErrors # <<>> /\ watcherErrors' = <<>>)
            => (~cancelled /\ cancelled')]_vars
    /\ (watchPc = "failed" ~> (cancelled /\ mainPc = "exited"))

\* Watch failed to subscribe, main took the error from the channel, called
\* cancel() and returned
C22_Witness ==
    /\ watchPc = "failed" /\ watcherErrors = <<>>
    /\ cancelled /\ mainPc = "exited"
    /\ started = 0

\* C31: a task is in verifyUpload's retry loop, or has a verification
\* result, only after its transfer loop returned nil with the object stored;
\* the verification loop makes at most 3 probes, waiting 0.5 s and then 1 s
\* between them, under a policy with fewer retries and a lower ceiling than
\* the transfer policy, whose loop makes at most 5 attempts; and
\* moveToFailedDir is entered only after the verification loop returned an
\* error.
C31_VerifyAfterTransferOwnPolicy ==
    \A t \in Tasks :
        /\ (phase[t] = "verify" \/ res[t].verify # "none")
            => /\ res[t].xfer = "ok"
               /\ S3Key(FilePath(file[t])) \in remote
        /\ phase[t] = "verify"
            => /\ rt[t].calls <= 3
               /\ rt[t].slept \in {<<>>, <<500>>, <<500, 1000>>}
               /\ rt[t].st = "sleep" => rt[t].delay \in {500, 1000}
               /\ RetryConfigOf(t).MaxRetries < DefaultRetryConfig("").MaxRetries
               /\ RetryConfigOf(t).MaxDelay < DefaultRetryConfig("").MaxDelay
        /\ phase[t] = "transfer" => rt[t].calls <= 5
        /\ (phase[t] \in QuarantinePhases \/ res[t].move # "none")
            => /\ res[t].xfer = "ok"
               /\ res[t].verify \notin {"none", "ok"}

\* one clip is quarantined after its three probes failed while the third
\* probe of another is about to be made after the waits of 0.5 s and 1 s
C31_Witness ==
    \E t, u \in Tasks :
        /\ res[t].verify = "exhausted" /\ res[t].move = "ok"
        /\ phase[u] = "verify" /\ rt[u].calls = 2
        /\ rt[u].slept = <<500, 1000>>

\* C32 as stated: moveToFailedDir is entered only for a clip whose
\* verification loop returned the exhaustion error; a verification loop
\* ended by the cancellation of the context or by the upload deadline does
\* not lead to the quarantine directory.
C32_QuarantineOnlyOnExhaustedVerification ==
    \A t \in Tasks :
        (phase[t] \in QuarantinePhases \/ res[t].move # "none")
            => res[t].verify = "exhausted"

\* C36 as stated: a Publish whose SNS call has failed four times, with the
\* delays of 1 s, 2 s, 4 s and 8 s waited out and the shared context not
\* cancelled, makes its fifth attempt and, that one failing too, returns
\* the exhaustion error.
C36_FifthPublishAttemptIsMade ==
    \A t \in Tasks :
        (/\ ~cancelled
         /\ phase[t] = "publish" /\ rt[t].st = "attempt"
         /\ rt[t].calls = 4 /\ rt[t].slept = <<1000, 2000, 4000, 8000>>)
        => ENABLED (PublishAttempt(t) /\ res'[t].pub = "exhausted")

\* C35: once NewCloudFrontSigner has returned a signer, exactly one
\* GetParameter call has been made in the process and the signer holds the
\* key read by it and the fixed key-pair id; every SignURL call, whatever
\* it returns, leaves the signer's private key and key-pair id and the
\* number of GetParameter calls as they were.
C35_KeyFetchedOnceAndReadOnly ==
    /\ [](sg.pc \in {"first", "second", "done"}
            => /\ sg.ssmReads = 1
               /\ sg.signer = [privateKey |-> sg.key,
                               keyPairID |-> cloudFrontKeyPairID])
    /\ [][sg.pc \in {"first", "second"}
            => (sg'.signer = sg.signer /\ sg'.ssmReads = sg.ssmReads)]_vars

\* two SignURL calls have returned signed URLs and the key was read once
C35_Witness ==
    /\ sg.pc = "done" /\ sg.r1.err = "none" /\ sg.r2.err = "none"
    /\ sg.ssmReads = 1 /\ sg.signer.privateKey = "k2"

\* C34: main builds its components only after LoadConfig returned a
\* configuration, in the order signer, uploader, publisher, watcher, and
\* starts Watch only when all four exist; after a fatal error (LoadConfig or
\* a constructor failing) nothing more is built and Watch is never started,
\* so a run whose signer could not be built never watches.
C34_BootOrderAndFatalErrors ==
    /\ [](/\ \E n \in 0..4 :
                cf.booted = SubSeq(<<"signer", "uploader", "publisher", "watcher">>, 1, n)
          /\ cf.booted # <<>> => cf.out.err = ""
          /\ cf.pc = "watching"
                => cf.booted = <<"signer", "uploader", "publisher", "watcher">>)
    /\ [][cf.pc \in {"fatal", "fatal_build"} => cf' = cf]_vars
    /\ [][cf'.pc = "watching" => cf.booted = cf'.booted]_vars

\* a run that loaded its configuration and died building the signer, with
\* nothing built and no watcher
C34_Witness ==
    /\ cf.pc = "fatal_build" /\ cf.out.err = "" /\ cf.booted = <<>>

C33_Mp4Paths ==
    { <<"c", ".", "m", "p", "4">>,
      <<"d", "/", "c", ".", "m", "p", "4">>,
      <<".", "m", "p", "4">> }

\* C33: each event Watch receives starts one processVideo goroutine, for the
\* event's path, when the event's operations include Create and the path's
\* final element ends in ".mp4", and starts nothing otherwise: not for a
\* Write, Remove, Rename or Chmod without Create, and not for a Create of
\* ".MP4", ".mp4.t", ".t", a name without a dot or a file in a directory
\* named "d.mp4".
C33_DispatchIffCreateOfMp4 ==
    [][wx'.received = wx.received + 1
        => IF "Create" \in wx'.last.Op /\ wx'.last.Name \in C33_Mp4Paths
           THEN wx'.tasks = Append(wx.tasks, wx'.last.Name)
           ELSE wx'.tasks = wx.tasks]_vars

\* a Create of c.MP4 started nothing and a Create (with Write) of c.mp4
\* then started a task
C33_Witness ==
    /\ wx.received = 2
    /\ wx.last = [Op |-> {"Create", "Write"}, Name |-> <<"c", ".", "m", "p", "4">>]
    /\ wx.tasks = << <<"c", ".", "m", "p", "4">> >>

\* the messages of the model whose body is an SNS envelope around a
\* notification with a cloudfront_url and a timestamp, and that notification
C38_ValidMessages == {1, 2, 7}
C38_Expected(m) ==
    CASE m = 1 -> [cloudfront_url |-> "u1", timestamp |-> "t1"]
      [] m = 2 -> [cloudfront_url |-> "u2", timestamp |-> "t2"]
      [] OTHER -> [cloudfront_url |-> "u7", timestamp |-> "t7"]

\* C38: deleteMessage is called only for a message whose body parsed into a
\* notification with a cloudfront_url and a timestamp, and only once that
\* notification has been passed to setLatestVideo (it is latestVideo if the
\* component is mounted) and written to localStorage; handling a message
\* that does not parse, or lacks or has an empty field, calls no
\* deleteMessage and leaves latestVideo and localStorage as they were.
C38_DeleteOnlyAfterStoredAndPersisted ==
    /\ [](px.deleteCalls \subseteq (C38_ValidMessages \cap px.setCalls \cap px.persisted))
    /\ [][px'.deleteCalls # px.deleteCalls
            => \E m \in C38_ValidMessages :
                /\ px'.deleteCalls = px.deleteCalls \cup {m}
                /\ px'.localStorage = C38_Expected(m)
                /\ px.mounted => px'.latestVideo = C38_Expected(m)]_vars
    /\ [][\A l \in 1..MaxLoops, m \in SqsIds \ C38_ValidMessages :
            PxReceiveReturns(l, m, FALSE)
                => /\ px'.deleteCalls = px.deleteCalls
                   /\ px'.latestVideo = px.latestVideo
                   /\ px'.localStorage = px.localStorage]_vars

\* the first loop received message 1, the notification is latestVideo and
\* in localStorage, and the loop is waiting for deleteMessage to return
C38_Witness ==
    /\ px.mounted
    /\ px.loops[1].pc = "deleting" /\ px.loops[1].msg = 1
    /\ px.deleteCalls = {1}
    /\ px.latestVideo = [cloudfront_url |-> "u1", timestamp |-> "t1"]
    /\ px.localStorage = [cloudfront_url |-> "u1", timestamp |-> "t1"]

\* the calls of poll() that have not returned
C39_ActiveLoops == {l \in 1..MaxLoops : px.loops[l].pc # "none"}

\* loop l calls receiveMessage in this step
C39_CallsReceive(l) ==
    /\ px'.loops[l].pc = "receive"
    /\ px.loops[l].pc # "receive" \/ px'.loops[l].i # px.loops[l].i

C39_OneLoopOnly == Cardinality(C39_ActiveLoops) <= 1
C39_NoReceiveAfterCleanup ==
    [][\A l \in 1..MaxLoops : px.loops[l].cleanedUp => ~C39_CallsReceive(l)]_vars
C39_NoReceiveLoggedOut ==
    [][(~px.isAuthenticated /\ ~px.effectPending)
            => \A l \in 1..MaxLoops : ~C39_CallsReceive(l)]_vars

\* C39 as stated: at most one polling loop is active at any time; a loop
\* whose effect run has been cleaned up (dependencies changed, or unmount)
\* calls receiveMessage no more; and once isAuthenticated is false and the
\* effect has run, no loop calls receiveMessage.
C39_AtMostOneLoop ==
    /\ []C39_OneLoopOnly
    /\ C39_NoReceiveAfterCleanup
    /\ C39_NoReceiveLoggedOut
====
